---- MODULE Spec2Model ----
(***************************************************************************)
(* A model of scripts/parse_config.py: the configuration parser that       *)
(* validates the bridge and validator records of config.yml and writes the *)
(* Prometheus scrape configuration, one alert rule file per entity, the    *)
(* Alertmanager configuration and the shell export lines.                  *)
(*                                                                         *)
(* Python values are modelled as follows.                                  *)
(*   str   a sequence of one-character strings                             *)
(*   dict  of alerts: a sequence of [k, v] pairs with distinct keys, in    *)
(*         insertion order (the iteration order of a Python dict)          *)
(*   a record of config.yml: the set `has` of the keys it holds plus one   *)
(*         field per key (the field is ignored when the key is not held)   *)
(*   a top-level value (bridges, validators): a tagged value, tag "list"   *)
(*         for a list and another tag for what is not a list               *)
(***************************************************************************)
EXTENDS Integers, Sequences, FiniteSets, TLC

\* Bounds of the inputs the model explores.
MaxAlerts == 2
MaxBridges == 2
MaxValidators == 2

---------------------------------------------------------------------------
(* Sequences and strings *)

Range(s) == {s[j] : j \in 1..Len(s)}

RECURSIVE Flatten(_)
Flatten(ss) == IF ss = <<>> THEN <<>> ELSE Head(ss) \o Flatten(Tail(ss))

Reverse(s) == [j \in 1..Len(s) |-> s[Len(s) + 1 - j]]

\* str.startswith
StartsWith(s, p) == Len(s) >= Len(p) /\ SubSeq(s, 1, Len(p)) = p

\* s[n:]
DropPrefix(s, n) == SubSeq(s, n + 1, Len(s))

\* str.lower on the alphabet of the model
LowerChar(c) == CASE c = "A" -> "a" [] c = "B" -> "b" [] OTHER -> c
Lower(s) == [j \in 1..Len(s) |-> LowerChar(s[j])]

\* str.replace(old, new) for one-character old and new
Replace(s, old, new) == [j \in 1..Len(s) |-> IF s[j] = old THEN new ELSE s[j]]

---------------------------------------------------------------------------
(* Alert values and alert maps *)

\* isinstance(v, bool): True and False are the booleans; "yes" is a str
IsBool(v) == v \in {"True", "False"}

\* the truth value Python gives a value
Truthy(v) == v \in {"True", "yes"}

Pair(k, v) == [k |-> k, v |-> v]

\* the three shapes of the `alerts` value of a record
DictAlerts(items) == [tag |-> "dict", items |-> items]
StrAlerts == [tag |-> "str", items |-> <<>>]

Keys(alerts) == {alerts.items[j].k : j \in 1..Len(alerts.items)}

\* dict[k] for a key the dict holds
Lookup(alerts, k) ==
    LET j == CHOOSE j \in 1..Len(alerts.items) : alerts.items[j].k = k
    IN  alerts.items[j].v

\* a variant of AlertsGet that takes a key the map does not hold as enabled:
\* alerts.get(k, True)
AlertsGetDefaultTrue(alerts, k) ==
    IF k \in Keys(alerts) THEN Truthy(Lookup(alerts, k)) ELSE TRUE

\* alerts.get(k, False), read as a condition
AlertsGet(alerts, k) ==
    IF k \in Keys(alerts) THEN Truthy(Lookup(alerts, k)) ELSE FALSE

---------------------------------------------------------------------------
(* The alert catalog *)

valid_alert_types ==
    { "uptime", "metrics_public_key_availability", "ingress_access",
      "voting_power",
      "bridge_requests_errors", "bridge_high_latency",
      "bridge_high_cache_misses", "bridge_rpc_errors",
      "stale_sui_sync", "stale_eth_sync", "stale_eth_finalization",
      "low_gas_balance" }

valid_validator_alert_types ==
    { "uptime", "reputation_rank", "voting_power",
      "tx_processing_latency_p95", "tx_processing_latency_p95_10s",
      "tx_processing_latency_p95_3s", "tx_processing_latency_p50",
      "proposal_latency", "consensus_block_commit_rate",
      "committed_round_rate", "fullnode_connectivity" }

BridgeCatalogOrder ==
    << "uptime", "metrics_public_key_availability", "ingress_access",
       "voting_power",
       "bridge_requests_errors", "bridge_high_latency",
       "bridge_high_cache_misses", "bridge_rpc_errors",
       "stale_sui_sync", "stale_eth_sync", "stale_eth_finalization",
       "low_gas_balance" >>

ValidatorCatalogOrder ==
    << "uptime", "reputation_rank", "voting_power",
       "tx_processing_latency_p95", "tx_processing_latency_p95_10s",
       "tx_processing_latency_p95_3s", "tx_processing_latency_p50",
       "proposal_latency", "consensus_block_commit_rate",
       "committed_round_rate", "fullnode_connectivity" >>

AllTrue(order) == DictAlerts([j \in 1..Len(order) |-> Pair(order[j], "True")])

\* a variant of get_default_alerts that leaves out the last key
get_default_alerts_without_last ==
    AllTrue(SubSeq(BridgeCatalogOrder, 1, Len(BridgeCatalogOrder) - 1))

get_default_alerts == AllTrue(BridgeCatalogOrder)

\* a variant of get_default_validator_alerts that also holds a key of the
\* bridge catalog
get_default_validator_alerts_with_bridge_key ==
    AllTrue(Append(ValidatorCatalogOrder, "ingress_access"))

get_default_validator_alerts == AllTrue(ValidatorCatalogOrder)

---------------------------------------------------------------------------
(* Errors *)

NoError == [kind |-> "none", who |-> "", index |-> -1, reason |-> "", field |-> ""]

\* raise ValueError(f"{who} {index} ...")
ValueError(who, index, reason, field) ==
    [kind |-> "ValueError", who |-> who, index |-> index, reason |-> reason,
     field |-> field]

\* an error that names no entity: sys.exit(1) after a message, or an
\* exception raised by the interpreter
OtherError(kind, reason) ==
    [kind |-> kind, who |-> "", index |-> -1, reason |-> reason, field |-> ""]

---------------------------------------------------------------------------
(* Validation *)

\* record[field]
Field(e, field) ==
    CASE field = "alias" -> e.alias
      [] field = "target" -> e.target
      [] field = "public_address" -> e.public_address

\* the loop over required_fields, from position j on
RECURSIVE CheckRequired(_, _, _, _, _)
CheckRequired(who, i, e, required_fields, j) ==
    IF j > Len(required_fields) THEN NoError
    ELSE LET field == required_fields[j] IN
         IF field \notin e.has
            THEN ValueError(who, i, "missing required field", field)
         ELSE IF Field(e, field) = <<>>
            THEN ValueError(who, i, "cannot be empty", field)
         ELSE CheckRequired(who, i, e, required_fields, j + 1)

\* a variant of CheckAlertItems without the isinstance(enabled, bool) test
RECURSIVE CheckAlertItemsNoBoolCheck(_, _, _, _, _)
CheckAlertItemsNoBoolCheck(who, i, alerts, valid, j) ==
    IF j > Len(alerts.items) THEN NoError
    ELSE IF alerts.items[j].k \notin valid
        THEN ValueError(who, i, "invalid alert type", alerts.items[j].k)
    ELSE CheckAlertItemsNoBoolCheck(who, i, alerts, valid, j + 1)

\* the loop over alerts.items(), from position j on
RECURSIVE CheckAlertItems(_, _, _, _, _)
CheckAlertItems(who, i, alerts, valid, j) ==
    IF j > Len(alerts.items) THEN NoError
    ELSE IF alerts.items[j].k \notin valid
        THEN ValueError(who, i, "invalid alert type", alerts.items[j].k)
    ELSE IF ~IsBool(alerts.items[j].v)
        THEN ValueError(who, i, "must be a boolean", alerts.items[j].k)
    ELSE CheckAlertItems(who, i, alerts, valid, j + 1)

validate_alerts_config(alerts, bridge_index) ==
    IF alerts.tag # "dict"
        THEN ValueError("Bridge", bridge_index, "alerts must be a dictionary", "alerts")
    ELSE CheckAlertItems("Bridge", bridge_index, alerts, valid_alert_types, 1)

validate_validator_alerts_config(alerts, validator_index) ==
    IF alerts.tag # "dict"
        THEN ValueError("Validator", validator_index, "alerts must be a dictionary", "alerts")
    ELSE CheckAlertItems("Validator", validator_index, alerts,
                         valid_validator_alert_types, 1)

\* a variant of BridgeRequiredFields without public_address
BridgeRequiredFieldsNoAddress == <<"alias", "target">>

BridgeRequiredFields == <<"alias", "target", "public_address">>

ValidatorRequiredFields == <<"alias", "target">>

\* the body of the loop of validate_bridges_config for bridge i: the error it
\* raises, if any
CheckBridge(i, bridge) ==
    IF ~bridge.isdict THEN ValueError("Bridge", i, "must be a dictionary", "")
    ELSE LET req == CheckRequired("Bridge", i, bridge, BridgeRequiredFields, 1) IN
         IF req.kind # "none" THEN req
         ELSE IF "alerts" \in bridge.has
            THEN validate_alerts_config(bridge.alerts, i)
         ELSE NoError

CheckValidator(i, validator) ==
    IF ~validator.isdict THEN ValueError("Validator", i, "must be a dictionary", "")
    ELSE LET req == CheckRequired("Validator", i, validator, ValidatorRequiredFields, 1) IN
         IF req.kind # "none" THEN req
         ELSE IF "alerts" \in validator.has
            THEN validate_validator_alerts_config(validator.alerts, i)
         ELSE NoError

\* a variant of SetDefault that completes a supplied map with the defaults
SetDefaultMerging(e, defaults) ==
    IF "alerts" \in e.has
        THEN [e EXCEPT !.alerts =
                DictAlerts(e.alerts.items \o
                    SelectSeq(defaults.items, LAMBDA p : p.k \notin Keys(e.alerts)))]
        ELSE [e EXCEPT !.has = @ \cup {"alerts"}, !.alerts = defaults]

\* a variant of SetDefault that takes the empty map for no map:
\* `if not record.get("alerts")`
SetDefaultWhenEmpty(e, defaults) ==
    IF "alerts" \in e.has /\ e.alerts.items # <<>> THEN e
    ELSE [e EXCEPT !.has = @ \cup {"alerts"}, !.alerts = defaults]

\* record["alerts"] = defaults, for a record that holds no alerts key
SetDefault(e, defaults) ==
    IF "alerts" \in e.has THEN e
    ELSE [e EXCEPT !.has = @ \cup {"alerts"}, !.alerts = defaults]

\* validate_bridges_config on a list, from 0-based position i on. The records
\* are changed in place, so the result holds the list as the call leaves it
\* together with the error raised.
RECURSIVE ValidateBridgeItems(_, _)
ValidateBridgeItems(items, i) ==
    IF i >= Len(items) THEN [items |-> items, error |-> NoError]
    ELSE LET err == CheckBridge(i, items[i + 1]) IN
         IF err.kind # "none" THEN [items |-> items, error |-> err]
         ELSE ValidateBridgeItems(
                [items EXCEPT ![i + 1] = SetDefault(@, get_default_alerts)], i + 1)

RECURSIVE ValidateValidatorItems(_, _)
ValidateValidatorItems(items, i) ==
    IF i >= Len(items) THEN [items |-> items, error |-> NoError]
    ELSE LET err == CheckValidator(i, items[i + 1]) IN
         IF err.kind # "none" THEN [items |-> items, error |-> err]
         ELSE ValidateValidatorItems(
                [items EXCEPT ![i + 1] = SetDefault(@, get_default_validator_alerts)],
                i + 1)

validate_bridges_config(bridges) ==
    IF bridges.tag # "list"
        THEN [value |-> bridges,
              error |-> OtherError("ValueError", "bridges must be a list")]
    ELSE LET r == ValidateBridgeItems(bridges.items, 0)
         IN  [value |-> [bridges EXCEPT !.items = r.items], error |-> r.error]

validate_validators_config(validators) ==
    IF validators.tag # "list"
        THEN [value |-> validators,
              error |-> OtherError("ValueError", "validators must be a list")]
    ELSE LET r == ValidateValidatorItems(validators.items, 0)
         IN  [value |-> [validators EXCEPT !.items = r.items], error |-> r.error]

---------------------------------------------------------------------------
(* Alert rules *)

\* One `if alerts.get(key, False): <list>.append({...})` of a rule generator:
\* the key it tests, the list it appends to, the severity label of the rule
\* and what its expression puts in the authority matcher ("-" when the
\* expression has none, "sui_validator" for the function's argument).
\* a variant of Template whose severity label is critical for every rule
TemplateAllCritical(key, list, severity, authority) ==
    [key |-> key, list |-> list, severity |-> "critical", authority |-> authority]

Template(key, list, severity, authority) ==
    [key |-> key, list |-> list, severity |-> severity, authority |-> authority]

BridgeTemplates ==
    << Template("uptime", "common", "critical", "-"),
       Template("metrics_public_key_availability", "common", "critical", "-"),
       Template("ingress_access", "common", "critical", "-"),
       Template("voting_power", "common", "critical", "${SUI_VALIDATOR}"),
       Template("bridge_requests_errors", "client_disabled", "critical", "-"),
       Template("bridge_high_latency", "client_disabled", "critical", "-"),
       Template("bridge_high_cache_misses", "client_disabled", "critical", "-"),
       Template("bridge_rpc_errors", "client_disabled", "critical", "-"),
       Template("stale_sui_sync", "client_enabled", "critical", "-"),
       Template("stale_eth_sync", "client_enabled", "critical", "-"),
       Template("stale_eth_finalization", "client_enabled", "critical", "-"),
       Template("low_gas_balance", "client_enabled", "critical", "-") >>

ValidatorTemplates ==
    << Template("uptime", "critical", "critical", "-"),
       Template("reputation_rank", "warning", "warning", "sui_validator"),
       Template("voting_power", "critical", "critical", "-"),
       Template("tx_processing_latency_p95", "critical", "critical", "-"),
       Template("tx_processing_latency_p95_10s", "warning", "warning", "-"),
       Template("tx_processing_latency_p95_3s", "warning", "warning", "-"),
       Template("tx_processing_latency_p50", "critical", "critical", "-"),
       Template("proposal_latency", "critical", "critical", "-"),
       Template("consensus_block_commit_rate", "critical", "critical", "-"),
       Template("committed_round_rate", "critical", "critical", "-"),
       Template("fullnode_connectivity", "critical", "critical", "sui_validator") >>

\* the lists of a rule generator in the order it adds their groups
BridgeLists == <<"common", "client_disabled", "client_enabled">>

ValidatorLists == <<"critical", "warning">>

\* a variant of GetAlerts that completes a supplied map with the defaults
GetAlertsMerged(e, defaults) ==
    IF "alerts" \in e.has
        THEN DictAlerts(e.alerts.items \o
                SelectSeq(defaults.items, LAMBDA p : p.k \notin Keys(e.alerts)))
        ELSE defaults

\* record.get("alerts", defaults)
GetAlerts(e, defaults) == IF "alerts" \in e.has THEN e.alerts ELSE defaults

\* a variant of EnabledTemplates that walks the alerts map, not the chain:
\* `for alert_type, enabled in alerts.items()`
EnabledTemplatesInMapOrder(templates, alerts) ==
    LET hit == SelectSeq(alerts.items,
                 LAMBDA p : Truthy(p.v) /\ \E j \in 1..Len(templates) : templates[j].key = p.k)
    IN  [n \in 1..Len(hit) |->
            templates[CHOOSE j \in 1..Len(templates) : templates[j].key = hit[n].k]]

\* the templates whose `if` is taken, in the order the chain of ifs runs
EnabledTemplates(templates, alerts) ==
    SelectSeq(templates, LAMBDA t : AlertsGet(alerts, t.key))

\* a variant of Rule that counts the positions from 1
RuleOneBased(t, i, alias, sui_validator) ==
    [ alert_type |-> t.key,
      severity   |-> t.severity,
      name_alias |-> Replace(alias, " ", "_"),
      index      |-> i + 1,
      alias      |-> alias,
      authority  |-> IF t.authority = "sui_validator" THEN sui_validator
                     ELSE t.authority ]

\* the rule one template adds for the entity at position i
Rule(t, i, alias, sui_validator) ==
    [ alert_type |-> t.key,
      severity   |-> t.severity,
      name_alias |-> Replace(alias, " ", "_"),
      index      |-> i,
      alias      |-> alias,
      authority  |-> IF t.authority = "sui_validator" THEN sui_validator
                     ELSE t.authority ]

\* the content of one list (common_alerts, critical_alerts, ...) when the
\* chain of ifs is through
ListRules(templates, list, i, alias, alerts, sui_validator) ==
    LET mine == SelectSeq(EnabledTemplates(templates, alerts), LAMBDA t : t.list = list)
    IN  [n \in 1..Len(mine) |-> Rule(mine[n], i, alias, sui_validator)]

Group(list, alias, rules) ==
    [list |-> list, name_alias |-> Replace(alias, " ", "_"), rules |-> rules]

\* a variant of Groups without the `if <list>:` tests
GroupsAlways(templates, lists, i, alias, alerts, sui_validator) ==
    [n \in 1..Len(lists) |->
        Group(lists[n], alias, ListRules(templates, lists[n], i, alias, alerts, sui_validator))]

\* `if <list>: groups.append({...})` for each list in turn
Groups(templates, lists, i, alias, alerts, sui_validator) ==
    SelectSeq(
        [n \in 1..Len(lists) |->
            Group(lists[n], alias,
                  ListRules(templates, lists[n], i, alias, alerts, sui_validator))],
        LAMBDA g : g.rules # <<>>)

\* alias.lower().replace(" ", "_").replace("-", "_")
SafeAlias(alias) == Replace(Replace(Lower(alias), " ", "_"), "-", "_")

\* str(n) for n >= 0
DigitText(d) ==
    CASE d = 0 -> "0" [] d = 1 -> "1" [] d = 2 -> "2" [] d = 3 -> "3" [] d = 4 -> "4"
      [] d = 5 -> "5" [] d = 6 -> "6" [] d = 7 -> "7" [] d = 8 -> "8" [] d = 9 -> "9"

RECURSIVE Decimal(_)
Decimal(n) ==
    IF n < 10 THEN <<DigitText(n)>> ELSE Decimal(n \div 10) \o <<DigitText(n % 10)>>

\* the characters of "sui_bridge" and of "sui_validator"
KindText(kind) ==
    IF kind = "sui_bridge"
        THEN <<"s", "u", "i", "_", "b", "r", "i", "d", "g", "e">>
        ELSE <<"s", "u", "i", "_", "v", "a", "l", "i", "d", "a", "t", "o", "r">>

\* a variant of RuleFileName without the position
RuleFileNameWithoutIndex(kind, i, safe_alias) ==
    KindText(kind) \o <<"_">> \o safe_alias
    \o <<"_", "a", "l", "e", "r", "t", "s", ".", "y", "m", "l">>

\* f"<kind>_{i}_{safe_alias}_alerts.yml", the name of the file in output_dir
RuleFileName(kind, i, safe_alias) ==
    KindText(kind) \o <<"_">> \o Decimal(i) \o <<"_">> \o safe_alias
    \o <<"_", "a", "l", "e", "r", "t", "s", ".", "y", "m", "l">>

\* a variant of generate_alert_rules that leaves the position out of the
\* file name
generate_alert_rules_unnumbered(i, bridge) ==
    LET alias  == bridge.alias
        alerts == GetAlerts(bridge, get_default_alerts)
    IN  [ path   |-> [kind |-> "sui_bridge", index |-> 0, safe_alias |-> SafeAlias(alias),
                      file |-> RuleFileNameWithoutIndex("sui_bridge", i, SafeAlias(alias))],
          groups |-> Groups(BridgeTemplates, BridgeLists, i, alias, alerts, "") ]

\* one iteration of the loop of generate_alert_rules: the file it writes
generate_alert_rules(i, bridge) ==
    LET alias  == bridge.alias
        alerts == GetAlerts(bridge, get_default_alerts)
    IN  [ path   |-> [kind |-> "sui_bridge", index |-> i, safe_alias |-> SafeAlias(alias),
                      file |-> RuleFileName("sui_bridge", i, SafeAlias(alias))],
          groups |-> Groups(BridgeTemplates, BridgeLists, i, alias, alerts, "") ]

\* one iteration of the loop of generate_validator_alert_rules
generate_validator_alert_rules(i, validator, sui_validator) ==
    LET alias  == validator.alias
        alerts == GetAlerts(validator, get_default_validator_alerts)
    IN  [ path   |-> [kind |-> "sui_validator", index |-> i, safe_alias |-> SafeAlias(alias),
                      file |-> RuleFileName("sui_validator", i, SafeAlias(alias))],
          groups |-> Groups(ValidatorTemplates, ValidatorLists, i, alias, alerts,
                            sui_validator) ]

---------------------------------------------------------------------------
(* Prometheus scrape configuration *)

HttpPrefix == <<"h", "t", "t", "p", ":", "/", "/">>

HttpsPrefix == <<"h", "t", "t", "p", "s", ":", "/", "/">>

\* a variant of StripScheme that cuts seven characters for either scheme
StripSchemeDropsSeven(target) ==
    IF StartsWith(target, HttpsPrefix)
        THEN [scheme |-> "https", clean_target |-> DropPrefix(target, 7)]
    ELSE IF StartsWith(target, HttpPrefix)
        THEN [scheme |-> "http", clean_target |-> DropPrefix(target, 7)]
    ELSE [scheme |-> "http", clean_target |-> target]

\* a variant of StripScheme whose scheme without a prefix is https
StripSchemeDefaultHttps(target) ==
    IF StartsWith(target, HttpsPrefix)
        THEN [scheme |-> "https", clean_target |-> DropPrefix(target, 8)]
    ELSE IF StartsWith(target, HttpPrefix)
        THEN [scheme |-> "http", clean_target |-> DropPrefix(target, 7)]
    ELSE [scheme |-> "https", clean_target |-> target]

\* a variant of StripScheme that leaves the prefix http:// in the target
StripSchemeKeepsHttp(target) ==
    IF StartsWith(target, HttpsPrefix)
        THEN [scheme |-> "https", clean_target |-> DropPrefix(target, 8)]
    ELSE [scheme |-> "http", clean_target |-> target]

\* the scheme detection of generate_prometheus_config
StripScheme(target) ==
    IF StartsWith(target, HttpsPrefix)
        THEN [scheme |-> "https", clean_target |-> DropPrefix(target, 8)]
    ELSE IF StartsWith(target, HttpPrefix)
        THEN [scheme |-> "http", clean_target |-> DropPrefix(target, 7)]
    ELSE [scheme |-> "http", clean_target |-> target]

\* alias.lower().replace(" ", "_"), the alias part of a job name
JobAlias(alias) == Replace(Lower(alias), " ", "_")

Job(job, name_alias, targets, service, alias, scheme, instance) ==
    [ job |-> job, name_alias |-> name_alias, targets |-> targets,
      service |-> service, alias |-> alias, scheme |-> scheme,
      instance |-> instance ]

PrometheusJob ==
    Job("prometheus", <<>>, << <<"${PROMETHEUS_TARGET}">> >>, "", <<>>, "", <<>>)

\* the three jobs the loop over bridges appends for one bridge
BridgeJobs(bridge) ==
    LET s == StripScheme(bridge.target) IN
    << Job("sui_bridge", JobAlias(bridge.alias), <<s.clean_target>>,
           "sui_bridge", bridge.alias, s.scheme, s.clean_target),
       Job("sui_bridge_metrics_public_key_check", JobAlias(bridge.alias),
           << bridge.public_address \o <<"/metrics_pub_key">> >>,
           "sui_bridge_health_check", bridge.alias, "", s.clean_target),
       Job("sui_bridge_ingress_check", JobAlias(bridge.alias),
           <<bridge.public_address>>,
           "sui_bridge_ingress_check", bridge.alias, "", s.clean_target) >>

\* the job the loop over validators appends for one validator
ValidatorJobs(validator) ==
    LET s == StripScheme(validator.target) IN
    << Job("sui_validator", JobAlias(validator.alias), <<s.clean_target>>,
           "sui_validator", validator.alias, s.scheme, <<>>) >>

\* whether `for x in value` runs (a list, a dict and a str can be iterated)
Iterable(value) == value.tag \in {"list", "dict", "str"}

\* a variant of scrape_configs that sets `scheme = "http"` once, ahead of
\* the loop over bridges: a bridge whose target has no scheme gets the scheme
\* of the last bridge before it that has one
scrape_configs_scheme_carried(bridges, validators) ==
    LET WithScheme(n) ==
            { m \in 1..n : \/ StartsWith(bridges.items[m].target, HttpPrefix)
                           \/ StartsWith(bridges.items[m].target, HttpsPrefix) }
        Last(n) == CHOOSE m \in WithScheme(n) : \A k \in WithScheme(n) : k <= m
        Carried(n) ==
            IF WithScheme(n) = {} THEN "http"
            ELSE StripScheme(bridges.items[Last(n)].target).scheme
    IN  <<PrometheusJob>>
        \o Flatten([n \in 1..Len(bridges.items) |->
                [BridgeJobs(bridges.items[n]) EXCEPT ![1].scheme = Carried(n)]])
        \o Flatten([n \in 1..Len(validators.items) |->
                ValidatorJobs(validators.items[n])])

\* a variant of scrape_configs that runs the loop over validators first
scrape_configs_validators_first(bridges, validators) ==
    <<PrometheusJob>>
    \o Flatten([n \in 1..Len(validators.items) |-> ValidatorJobs(validators.items[n])])
    \o Flatten([n \in 1..Len(bridges.items) |-> BridgeJobs(bridges.items[n])])

\* scrape_configs as generate_prometheus_config builds it
scrape_configs(bridges, validators) ==
    <<PrometheusJob>>
    \o Flatten([n \in 1..Len(bridges.items) |-> BridgeJobs(bridges.items[n])])
    \o Flatten([n \in 1..Len(validators.items) |-> ValidatorJobs(validators.items[n])])

---------------------------------------------------------------------------
(* Alertmanager configuration *)

Digits == {"0", "1", "2", "3", "4", "5", "6", "7", "8", "9"}

\* a value of config.yml that is a str, and one that is an int
StrValue(chars) == [tag |-> "str", chars |-> chars, n |-> 0]

IntValue(n) == [tag |-> "int", chars |-> <<>>, n |-> n]

\* bool(value) of a str or an int
ValueTruthy(value) == IF value.tag = "int" THEN value.n # 0 ELSE value.chars # <<>>

\* s.strip() for the blank " "
RECURSIVE StripSpaces(_)
StripSpaces(s) ==
    IF s = <<>> THEN s
    ELSE IF Head(s) = " " THEN StripSpaces(Tail(s))
    ELSE IF s[Len(s)] = " " THEN StripSpaces(SubSeq(s, 1, Len(s) - 1))
    ELSE s

\* a variant of ParsesAsInt for which every str is a number
ParsesAsIntAlways(s) == TRUE

\* whether int(s) returns for a str s: blanks around, an optional sign, and
\* then digits, where single underscores may stand between two digits
ParsesAsInt(s) ==
    LET t == StripSpaces(s)
        body == IF t # <<>> /\ Head(t) \in {"-", "+"} THEN Tail(t) ELSE t
    IN  /\ body # <<>>
        /\ body[1] \in Digits
        /\ body[Len(body)] \in Digits
        /\ \A j \in 1..Len(body) :
              \/ body[j] \in Digits
              \/ body[j] = "_" /\ body[j - 1] \in Digits /\ body[j + 1] \in Digits

\* whether int(value) raises
IntRaises(value) == value.tag = "str" /\ ~ParsesAsInt(value.chars)

has_pagerduty(config) == config.pagerduty_key # <<>>

has_telegram(config) ==
    config.telegram_bot_token # <<>> /\ ValueTruthy(config.telegram_chat_id)

has_discord(config) == config.discord_webhook_url # <<>>

\* a variant of critical_receiver that looks at the bot token only
critical_receiver_token_only(config) ==
    {"webhook_configs"}
    \cup (IF has_pagerduty(config) THEN {"pagerduty_configs"} ELSE {})
    \cup (IF config.telegram_bot_token # <<>> THEN {"telegram_configs"} ELSE {})
    \cup (IF has_discord(config) THEN {"discord_configs"} ELSE {})

\* the config keys a receiver holds besides its name
critical_receiver(config) ==
    {"webhook_configs"}
    \cup (IF has_pagerduty(config) THEN {"pagerduty_configs"} ELSE {})
    \cup (IF has_telegram(config) THEN {"telegram_configs"} ELSE {})
    \cup (IF has_discord(config) THEN {"discord_configs"} ELSE {})

\* a variant of warning_receiver that pages as the critical receiver does
warning_receiver_paging(config) ==
    {"webhook_configs"}
    \cup (IF has_pagerduty(config) THEN {"pagerduty_configs"} ELSE {})
    \cup (IF has_telegram(config) THEN {"telegram_configs"} ELSE {})
    \cup (IF has_discord(config) THEN {"discord_configs"} ELSE {})

warning_receiver(config) ==
    {"webhook_configs"}
    \cup (IF has_telegram(config) THEN {"telegram_configs"} ELSE {})
    \cup (IF has_discord(config) THEN {"discord_configs"} ELSE {})

alertmanager_config(config) ==
    [ route |-> [ receiver |-> "default",
                  routes |-> << [severity |-> "critical", receiver |-> "critical"],
                                [severity |-> "warning", receiver |-> "warning"] >> ],
      receivers |-> << [name |-> "default", configs |-> {"webhook_configs"}],
                       [name |-> "critical", configs |-> critical_receiver(config)],
                       [name |-> "warning", configs |-> warning_receiver(config)] >> ]

---------------------------------------------------------------------------
(* Shell export *)

Line(var, index, key, value) ==
    [var |-> var, index |-> index, key |-> key, value |-> value]

\* str(enabled).lower() for a bool
FlagText(v) == IF v = "True" THEN <<"true">> ELSE <<"false">>

\* the lines export_bridge_variables prints for the bridge at position i
BridgeLines(i, bridge) ==
    LET alerts == GetAlerts(bridge, get_default_alerts) IN
    << Line("SUI_BRIDGE_ALIAS", i, "", bridge.alias),
       Line("SUI_BRIDGE_TARGET", i, "", bridge.target),
       Line("SUI_BRIDGE_PUBLIC_ADDRESS", i, "", bridge.public_address) >>
    \o [n \in 1..Len(alerts.items) |->
            Line("SUI_BRIDGE_ALERT", i, alerts.items[n].k, FlagText(alerts.items[n].v))]

export_bridge_variables(bridges, sui_validator) ==
    << Line("SUI_BRIDGES_COUNT", Len(bridges.items), "", <<>>),
       Line("SUI_VALIDATOR", -1, "", <<sui_validator>>) >>
    \o Flatten([n \in 1..Len(bridges.items) |-> BridgeLines(n - 1, bridges.items[n])])
    \o << Line("SUI_BRIDGES_CONFIG_FILE", -1, "", <<"generated_configs/bridges.json">>) >>

\* the lines export_validator_variables prints for the validator at position i
ValidatorLines(i, validator) ==
    << Line("SUI_VALIDATOR_ALIAS", i, "", validator.alias),
       Line("SUI_VALIDATOR_TARGET", i, "", validator.target) >>

export_validator_variables(validators) ==
    << Line("SUI_VALIDATORS_COUNT", Len(validators.items), "", <<>>) >>
    \o Flatten([n \in 1..Len(validators.items) |-> ValidatorLines(n - 1, validators.items[n])])
    \o << Line("SUI_VALIDATORS_CONFIG_FILE", -1, "", <<"generated_configs/validators.json">>) >>

---------------------------------------------------------------------------
(* Inputs: the contents of config.yml the model explores *)

ListValue(items) == [tag |-> "list", truthy |-> items # <<>>, items |-> items]

\* a value that is not a list: a dict, a str, an int or None, empty or not
NonListValue(tag, truthy) == [tag |-> tag, truthy |-> truthy, items |-> <<>>]

\* the key is not in config.yml
AbsentValue == [tag |-> "absent", truthy |-> FALSE, items |-> <<>>]

NonListValues ==
    { NonListValue("dict", FALSE), NonListValue("dict", TRUE),
      NonListValue("str", FALSE), NonListValue("str", TRUE),
      NonListValue("int", FALSE), NonListValue("int", TRUE),
      NonListValue("none", FALSE) }

\* the alerts field of a record that holds no alerts key
NoAlerts == [tag |-> "absent", items |-> <<>>]

Entity(has, alias, target, public_address, alerts) ==
    [ isdict |-> TRUE, has |-> has, alias |-> alias, target |-> target,
      public_address |-> public_address, alerts |-> alerts ]

\* a list element that is not a record
NonDictItem ==
    [ isdict |-> FALSE, has |-> {}, alias |-> <<>>, target |-> <<>>,
      public_address |-> <<>>, alerts |-> NoAlerts ]

AliasA == <<"A", " ", "b">>
AliasB == <<"a", "-", "b">>
HostPort == <<"1", "0", ":", "9">>
TargetHttp == HttpPrefix \o HostPort
PublicAddress == <<"https://alpha.example.com">>

BridgeWith(alerts) ==
    Entity(IF alerts = NoAlerts THEN {"alias", "target", "public_address"}
           ELSE {"alias", "target", "public_address", "alerts"},
           AliasA, TargetHttp, PublicAddress, alerts)

ValidatorWith(alerts) ==
    Entity(IF alerts = NoAlerts THEN {"alias", "target"}
           ELSE {"alias", "target", "alerts"},
           AliasB, HostPort, <<>>, alerts)

\* a record without the key `field`, and one that holds it empty
Without(e, field) == [e EXCEPT !.has = @ \ {field}]

WithEmpty(e, field) ==
    CASE field = "alias" -> [e EXCEPT !.alias = <<>>]
      [] field = "target" -> [e EXCEPT !.target = <<>>]
      [] field = "public_address" -> [e EXCEPT !.public_address = <<>>, !.has = @ \cup {field}]

AlertValues == {"True", "False", "yes"}

\* the alert maps of at most n entries over `keys`, in every insertion order
RECURSIVE MapsUpTo(_, _)
MapsUpTo(keys, n) ==
    IF n = 0 THEN {<<>>}
    ELSE LET shorter == MapsUpTo(keys, n - 1) IN
         shorter \cup
         UNION { { Append(m, Pair(k, v)) :
                     k \in keys \ {m[j].k : j \in 1..Len(m)}, v \in AlertValues } :
                 m \in {x \in shorter : Len(x) = n - 1} }

\* the keys the bounded alert maps are drawn from: keys of every list of the
\* kind, a key of the other kind only, and a key of neither
BridgeSampleKeys ==
    { "uptime", "voting_power", "bridge_rpc_errors", "stale_sui_sync",
      "low_gas_balance", "reputation_rank", "bogus" }

ValidatorSampleKeys ==
    { "uptime", "reputation_rank", "voting_power", "tx_processing_latency_p95_3s",
      "fullnode_connectivity", "ingress_access", "bogus" }

\* the alert map that sets the keys of S to True, written in the order `order`;
\* the other keys are left out, or set to False when `fill`
SubsetMap(order, S, fill) ==
    LET kept == SelectSeq(order, LAMBDA k : fill \/ k \in S)
    IN  [j \in 1..Len(kept) |-> Pair(kept[j], IF kept[j] \in S THEN "True" ELSE "False")]

\* the three ways the model writes the map of a subset S: in catalog order
\* and in reverse catalog order without the other keys, and in reverse order
\* with the other keys False
SubsetMapVariant(order, S, variant) ==
    CASE variant = "catalog" -> SubsetMap(order, S, FALSE)
      [] variant = "reverse" -> SubsetMap(Reverse(order), S, FALSE)
      [] variant = "reverse_filled" -> SubsetMap(Reverse(order), S, TRUE)

SubsetMapVariants == {"catalog", "reverse", "reverse_filled"}

\* no alerts key, alerts that are no dict, and every map of at most MaxAlerts
\* entries over the sample keys
BridgeAlertMaps ==
    {NoAlerts, StrAlerts}
    \cup {DictAlerts(m) : m \in MapsUpTo(BridgeSampleKeys, MaxAlerts)}

ValidatorAlertMaps ==
    {NoAlerts, StrAlerts}
    \cup {DictAlerts(m) : m \in MapsUpTo(ValidatorSampleKeys, MaxAlerts)}

\* a few alert maps for the records of longer lists
BridgeSampleMaps ==
    { NoAlerts, StrAlerts, DictAlerts(<<>>),
      DictAlerts(<<Pair("uptime", "True"), Pair("voting_power", "False")>>),
      DictAlerts(<<Pair("reputation_rank", "True")>>),
      DictAlerts(<<Pair("uptime", "yes")>>) }

ValidatorSampleMaps ==
    { NoAlerts, StrAlerts, DictAlerts(<<>>),
      DictAlerts(<<Pair("voting_power", "True"), Pair("reputation_rank", "True")>>),
      DictAlerts(<<Pair("ingress_access", "True")>>),
      DictAlerts(<<Pair("uptime", "yes")>>) }

RequiredOfBridge == {"alias", "target", "public_address"}

RequiredOfValidator == {"alias", "target"}

SampleBridges ==
    {NonDictItem}
    \cup {BridgeWith(m) : m \in BridgeSampleMaps}
    \cup {[BridgeWith(NoAlerts) EXCEPT !.alias = AliasB, !.target = HostPort]}
    \cup {Without(BridgeWith(NoAlerts), f) : f \in RequiredOfBridge}
    \cup {WithEmpty(BridgeWith(NoAlerts), f) : f \in RequiredOfBridge}

SampleValidators ==
    {NonDictItem}
    \cup {ValidatorWith(m) : m \in ValidatorSampleMaps}
    \cup {[ValidatorWith(NoAlerts) EXCEPT !.alias = AliasA, !.target = TargetHttp]}
    \cup {Without(ValidatorWith(NoAlerts), f) : f \in RequiredOfValidator}
    \cup {WithEmpty(ValidatorWith(NoAlerts), f) : f \in RequiredOfValidator \cup {"public_address"}}

\* the lists of at most n elements of S
RECURSIVE ListsUpTo(_, _)
ListsUpTo(S, n) ==
    IF n = 0 THEN {<<>>}
    ELSE LET shorter == ListsUpTo(S, n - 1) IN
         shorter \cup {Append(l, x) : l \in {y \in shorter : Len(y) = n - 1}, x \in S}

\* the notification settings of config.yml: "" stands for a key left out
Notify(pagerduty_key, telegram_bot_token, telegram_chat_id, discord_webhook_url) ==
    [ pagerduty_key |-> pagerduty_key, telegram_bot_token |-> telegram_bot_token,
      telegram_chat_id |-> telegram_chat_id,
      discord_webhook_url |-> discord_webhook_url ]

NoNotify == Notify(<<>>, <<>>, StrValue(<<>>), <<>>)

\* chat ids: left out, numbers written as a str, a str that is no number,
\* and numbers written as an int
ChatIds ==
    { StrValue(<<>>), StrValue(<<"4", "2">>), StrValue(<<"-", "7">>),
      StrValue(<<" ", "4", "_", "2">>), StrValue(<<"a", "b">>), StrValue(<<"4", "_">>),
      IntValue(0), IntValue(42) }

Notifies ==
    { Notify(p, t, c, d) :
        p \in {<<>>, <<"key">>}, t \in {<<>>, <<"token">>},
        c \in ChatIds, d \in {<<>>, <<"url">>} }

Config(empty, bridges, validators, sui_validator, notify) ==
    [ empty |-> empty, bridges |-> bridges, validators |-> validators,
      sui_validator |-> sui_validator,
      pagerduty_key |-> notify.pagerduty_key,
      telegram_bot_token |-> notify.telegram_bot_token,
      telegram_chat_id |-> notify.telegram_chat_id,
      discord_webhook_url |-> notify.discord_webhook_url ]

\* an empty file
EmptyConfigs == {Config(TRUE, AbsentValue, AbsentValue, "", NoNotify)}

\* one bridge with the alert map m, and one validator with the alert map m
BridgeAlertConfig(m) ==
    Config(FALSE, ListValue(<<BridgeWith(m)>>), AbsentValue, "0xabc", NoNotify)

ValidatorAlertConfig(m) ==
    Config(FALSE, ListValue(<<>>), ListValue(<<ValidatorWith(m)>>), "0xabc", NoNotify)

\* any bridges value: left out, not a list, or a list of sample records
BridgeListConfigs ==
    { Config(FALSE, b, v, "0xabc", NoNotify) :
        b \in {AbsentValue} \cup NonListValues
               \cup {ListValue(l) : l \in ListsUpTo(SampleBridges, MaxBridges)},
        v \in {AbsentValue, ListValue(<<ValidatorWith(NoAlerts)>>)} }

\* any validators value
ValidatorListConfigs ==
    { Config(FALSE, ListValue(<<BridgeWith(NoAlerts)>>), v, "0xabc", NoNotify) :
        v \in NonListValues
               \cup {ListValue(l) : l \in ListsUpTo(SampleValidators, MaxValidators)} }

\* the prefixes a target is written with: none, a scheme, a scheme in capitals,
\* and a scheme that lacks a slash
TargetPrefixes ==
    { <<>>, HttpPrefix, HttpsPrefix, <<"H", "T", "T", "P", ":", "/", "/">>,
      <<"h", "t", "t", "p", ":", "/">> }

\* the target of the end-to-end example, http://10.0.0.1:9100
ExampleTarget ==
    HttpPrefix \o <<"1", "0", ".", "0", ".", "0", ".", "1", ":", "9", "1", "0", "0">>

\* targets with up to two prefixes, and a target that is a scheme and no more
Targets ==
    { p \o q \o HostPort : p \in TargetPrefixes, q \in TargetPrefixes }
    \cup { ExampleTarget, HttpPrefix, HttpsPrefix }

\* one bridge and one validator with any targets
TargetConfig(t, u) ==
    Config(FALSE, ListValue(<<[BridgeWith(NoAlerts) EXCEPT !.target = t]>>),
           ListValue(<<[ValidatorWith(NoAlerts) EXCEPT !.target = u]>>), "0xabc", NoNotify)

\* any notification settings
NotifyConfigs ==
    { Config(FALSE, ListValue(<<BridgeWith(NoAlerts)>>),
             ListValue(<<ValidatorWith(NoAlerts)>>), s, n) :
        s \in {"", "0xabc"}, n \in Notifies }

\* the contents of config.yml the model starts from
IsInput(c) ==
    \/ c \in EmptyConfigs
    \/ \E m \in BridgeAlertMaps : c = BridgeAlertConfig(m)
    \/ \E m \in ValidatorAlertMaps : c = ValidatorAlertConfig(m)
    \/ \E S \in SUBSET Range(BridgeCatalogOrder), variant \in SubsetMapVariants :
          c = BridgeAlertConfig(DictAlerts(SubsetMapVariant(BridgeCatalogOrder, S, variant)))
    \/ \E S \in SUBSET Range(ValidatorCatalogOrder), variant \in SubsetMapVariants :
          c = ValidatorAlertConfig(
                DictAlerts(SubsetMapVariant(ValidatorCatalogOrder, S, variant)))
    \/ c \in BridgeListConfigs
    \/ c \in ValidatorListConfigs
    \/ c \in NotifyConfigs
    \/ \E t \in Targets, u \in Targets : c = TargetConfig(t, u)

---------------------------------------------------------------------------
(* The run of main *)

VARIABLES
    config_file,        \* the content of config.yml; the run never writes it
    pc,                 \* the statement of main that runs next
    config,             \* the loaded configuration; validation changes it in place
    i,                  \* the position of the running loop over entities
    prometheus_file,    \* scrape_configs of the file written; <<>> before
    rule_files,         \* the rule files written, in the order of writing
    alertmanager_file,  \* the Alertmanager documents written (none or one)
    json_files,         \* the JSON files written, in the order of writing
    stdout,             \* the export lines printed
    error               \* the error that ended the run

vars == << config_file, pc, config, i, prometheus_file, rule_files, alertmanager_file,
           json_files, stdout, error >>

\* `if value:`
IsTruthy(value) == IF value.tag = "list" THEN value.items # <<>> ELSE value.truthy

\* config.get("validators", [])
ValidatorsOf(c) == IF c.validators.tag = "absent" THEN ListValue(<<>>) ELSE c.validators

Init ==
    /\ pc = "load"
    /\ IsInput(config_file)
    /\ config = config_file
    /\ i = 0
    /\ prometheus_file = <<>>
    /\ rule_files = <<>>
    /\ alertmanager_file = <<>>
    /\ json_files = <<>>
    /\ stdout = <<>>
    /\ error = NoError

\* the run ends with `err`
Fail(err) ==
    /\ pc' = "failed"
    /\ error' = err

\* load_config: an empty file is refused
LoadConfig ==
    /\ pc = "load"
    /\ IF config.empty
          THEN Fail(OtherError("exit", "Configuration file is empty"))
          ELSE pc' = "validate_bridges" /\ error' = error
    /\ UNCHANGED << config_file, config, i, prometheus_file, rule_files, alertmanager_file,
                    json_files, stdout >>

\* main: the check for the bridges section and validate_bridges_config
ValidateBridges ==
    /\ pc = "validate_bridges"
    /\ IF config.bridges.tag = "absent"
          THEN /\ Fail(OtherError("exit", "No 'bridges' section found"))
               /\ config' = config
          ELSE LET r == validate_bridges_config(config.bridges) IN
               /\ config' = [config EXCEPT !.bridges = r.value]
               /\ IF r.error.kind # "none"
                     THEN Fail(r.error)
                     ELSE pc' = "validate_validators" /\ error' = error
    /\ UNCHANGED << config_file, i, prometheus_file, rule_files, alertmanager_file,
                    json_files, stdout >>

\* a variant of ValidateValidators that runs behind generate_prometheus_config:
\* the scrape configuration is on disk when the validators are checked
ValidateValidatorsAfterScrape ==
    /\ pc = "validate_validators"
    /\ prometheus_file' = IF Iterable(ValidatorsOf(config))
                              THEN scrape_configs(config.bridges, ValidatorsOf(config))
                              ELSE prometheus_file
    /\ IF IsTruthy(ValidatorsOf(config))
          THEN LET r == validate_validators_config(config.validators) IN
               /\ config' = [config EXCEPT !.validators = r.value]
               /\ IF r.error.kind # "none"
                     THEN Fail(r.error)
                     ELSE pc' = "prometheus" /\ error' = error
          ELSE /\ config' = config
               /\ pc' = "prometheus"
               /\ error' = error
    /\ UNCHANGED << config_file, i, rule_files, alertmanager_file, json_files, stdout >>

\* main: `if validators: validate_validators_config(validators)`
ValidateValidators ==
    /\ pc = "validate_validators"
    /\ IF IsTruthy(ValidatorsOf(config))
          THEN LET r == validate_validators_config(config.validators) IN
               /\ config' = [config EXCEPT !.validators = r.value]
               /\ IF r.error.kind # "none"
                     THEN Fail(r.error)
                     ELSE pc' = "prometheus" /\ error' = error
          ELSE /\ config' = config
               /\ pc' = "prometheus"
               /\ error' = error
    /\ UNCHANGED << config_file, i, prometheus_file, rule_files, alertmanager_file,
                    json_files, stdout >>

\* a variant of GeneratePrometheus that stores the clean target in the
\* record of each bridge: `bridge["target"] = clean_target`
GeneratePrometheusStoringTarget ==
    /\ pc = "prometheus"
    /\ IF Iterable(ValidatorsOf(config))
          THEN /\ prometheus_file' = scrape_configs(config.bridges, ValidatorsOf(config))
               /\ config' = [config EXCEPT !.bridges.items =
                      [n \in 1..Len(@) |->
                          [@[n] EXCEPT !.target = StripScheme(@).clean_target]]]
               /\ pc' = "bridge_rules"
               /\ error' = error
          ELSE /\ Fail(OtherError("TypeError", "object is not iterable"))
               /\ prometheus_file' = prometheus_file
               /\ config' = config
    /\ i' = 0
    /\ UNCHANGED << config_file, rule_files, alertmanager_file, json_files, stdout >>

\* generate_prometheus_config: the loops over bridges and validators and
\* the write of the file
GeneratePrometheus ==
    /\ pc = "prometheus"
    /\ IF Iterable(ValidatorsOf(config))
          THEN /\ prometheus_file' = scrape_configs(config.bridges, ValidatorsOf(config))
               /\ pc' = "bridge_rules"
               /\ error' = error
          ELSE /\ Fail(OtherError("TypeError", "object is not iterable"))
               /\ prometheus_file' = prometheus_file
    /\ i' = 0
    /\ UNCHANGED << config_file, config, rule_files, alertmanager_file, json_files, stdout >>

\* generate_alert_rules: one iteration of its loop
WriteBridgeRules ==
    /\ pc = "bridge_rules"
    /\ i < Len(config.bridges.items)
    /\ rule_files' = Append(rule_files, generate_alert_rules(i, config.bridges.items[i + 1]))
    /\ i' = i + 1
    /\ UNCHANGED << config_file, pc, config, prometheus_file, alertmanager_file, json_files,
                    stdout, error >>

\* generate_alert_rules returns; main: `if validators:`
BridgeRulesDone ==
    /\ pc = "bridge_rules"
    /\ i = Len(config.bridges.items)
    /\ pc' = IF IsTruthy(ValidatorsOf(config)) THEN "validator_rules" ELSE "alertmanager"
    /\ i' = 0
    /\ UNCHANGED << config_file, config, prometheus_file, rule_files, alertmanager_file,
                    json_files, stdout, error >>

\* generate_validator_alert_rules: one iteration of its loop
WriteValidatorRules ==
    /\ pc = "validator_rules"
    /\ i < Len(config.validators.items)
    /\ rule_files' = Append(rule_files,
            generate_validator_alert_rules(i, config.validators.items[i + 1],
                                           config.sui_validator))
    /\ i' = i + 1
    /\ UNCHANGED << config_file, pc, config, prometheus_file, alertmanager_file, json_files,
                    stdout, error >>

\* generate_validator_alert_rules returns
ValidatorRulesDone ==
    /\ pc = "validator_rules"
    /\ i = Len(config.validators.items)
    /\ pc' = "alertmanager"
    /\ i' = 0
    /\ UNCHANGED << config_file, config, prometheus_file, rule_files, alertmanager_file,
                    json_files, stdout, error >>

\* a variant of GenerateAlertmanager that opens the file ahead of building
\* the receivers: the conversion fails with the file on disk, holding the
\* default receiver alone
GenerateAlertmanagerOpeningFirst ==
    /\ pc = "alertmanager"
    /\ IF has_telegram(config) /\ IntRaises(config.telegram_chat_id)
          THEN /\ Fail(OtherError("ValueError", "invalid literal for int()"))
               /\ alertmanager_file' =
                     << [alertmanager_config(config) EXCEPT
                            !.receivers = <<[name |-> "default",
                                             configs |-> {"webhook_configs"}]>>] >>
          ELSE /\ alertmanager_file' = <<alertmanager_config(config)>>
               /\ pc' = "export_bridges"
               /\ error' = error
    /\ UNCHANGED << config_file, config, i, prometheus_file, rule_files, json_files, stdout >>

\* generate_alertmanager_config: int(telegram_chat_id) raises for a chat id
\* that is no number, before the file is opened
GenerateAlertmanager ==
    /\ pc = "alertmanager"
    /\ IF has_telegram(config) /\ IntRaises(config.telegram_chat_id)
          THEN /\ Fail(OtherError("ValueError", "invalid literal for int()"))
               /\ alertmanager_file' = alertmanager_file
          ELSE /\ alertmanager_file' = <<alertmanager_config(config)>>
               /\ pc' = "export_bridges"
               /\ error' = error
    /\ UNCHANGED << config_file, config, i, prometheus_file, rule_files, json_files, stdout >>

\* a variant of ExportBridges that runs ahead of generate_alertmanager_config
ExportBridgesBeforeRouting ==
    /\ pc = "alertmanager"
    /\ stdout = <<>>
    /\ stdout' = stdout \o export_bridge_variables(config.bridges, config.sui_validator)
    /\ json_files' = Append(json_files,
            [path |-> "generated_configs/bridges.json", content |-> config.bridges.items])
    /\ UNCHANGED << config_file, pc, config, i, prometheus_file, rule_files,
                    alertmanager_file, error >>

\* export_bridge_variables; main: `if validators:`
ExportBridges ==
    /\ pc = "export_bridges"
    /\ stdout' = stdout \o export_bridge_variables(config.bridges, config.sui_validator)
    /\ json_files' = Append(json_files,
            [path |-> "generated_configs/bridges.json", content |-> config.bridges.items])
    /\ pc' = IF IsTruthy(ValidatorsOf(config)) THEN "export_validators" ELSE "done"
    /\ UNCHANGED << config_file, config, i, prometheus_file, rule_files, alertmanager_file, error >>

\* export_validator_variables
ExportValidators ==
    /\ pc = "export_validators"
    /\ stdout' = stdout \o export_validator_variables(config.validators)
    /\ json_files' = Append(json_files,
            [path |-> "generated_configs/validators.json",
             content |-> config.validators.items])
    /\ pc' = "done"
    /\ UNCHANGED << config_file, config, i, prometheus_file, rule_files, alertmanager_file, error >>

Next ==
    \/ LoadConfig
    \/ ValidateBridges
    \/ ValidateValidators
    \/ GeneratePrometheus
    \/ WriteBridgeRules
    \/ BridgeRulesDone
    \/ WriteValidatorRules
    \/ ValidatorRulesDone
    \/ GenerateAlertmanager
    \/ ExportBridges
    \/ ExportValidators

Spec == Init /\ [][Next]_vars

---------------------------------------------------------------------------
(* Properties *)

\* the statements of main after the validation of both lists
GenerationStages ==
    { "prometheus", "bridge_rules", "validator_rules", "alertmanager",
      "export_bridges", "export_validators", "done" }

\* the run failed in a generation stage, after validation
FailedInGeneration ==
    /\ pc = "failed"
    /\ \/ error.kind = "TypeError"
       \/ error.reason = "invalid literal for int()"

\* validate_bridges_config has returned without an error
BridgesValidated ==
    pc \in {"validate_validators"} \cup GenerationStages
    \/ FailedInGeneration
    \/ (pc = "failed" /\ (error.who = "Validator" \/ error.reason = "validators must be a list"))

\* validate_bridges_config has raised
BridgesRefused ==
    pc = "failed" /\ (error.who = "Bridge" \/ error.reason = "bridges must be a list")

\* validate_validators_config was called and has returned without an error
ValidatorsValidated ==
    /\ pc \in GenerationStages \/ FailedInGeneration
    /\ IsTruthy(ValidatorsOf(config_file))

\* validate_validators_config has raised
ValidatorsRefused ==
    pc = "failed" /\ (error.who = "Validator" \/ error.reason = "validators must be a list")

\* the record a rule file was written for, as validation left it, and as
\* config.yml holds it
EntityOf(f) ==
    IF f.path.kind = "sui_bridge" THEN config.bridges.items[f.path.index + 1]
    ELSE config.validators.items[f.path.index + 1]

InputOf(f) ==
    IF f.path.kind = "sui_bridge" THEN config_file.bridges.items[f.path.index + 1]
    ELSE config_file.validators.items[f.path.index + 1]

CatalogOf(f) ==
    IF f.path.kind = "sui_bridge" THEN BridgeCatalogOrder ELSE ValidatorCatalogOrder

\* the keys an alert map sets to True
TrueKeys(alerts) == {k \in Keys(alerts) : Lookup(alerts, k) = "True"}

\* the alert_type labels of the rules of a group, and of a file in output order
TypesOfGroup(g) == [n \in 1..Len(g.rules) |-> g.rules[n].alert_type]

TypesOfFile(f) == Flatten([n \in 1..Len(f.groups) |-> TypesOfGroup(f.groups[n])])

\* the sequence `order` restricted to the set S
Restrict(order, S) == SelectSeq(order, LAMBDA k : k \in S)

\* C1: for every rule file written, the number of rules over all its groups
\* equals the number of valid keys the validated alerts map of its entity
\* sets to True, and the alert_type labels of the rules are exactly those
\* keys (so each enabled key has one rule and no other key has one).
C1_RuleCount ==
    \A n \in 1..Len(rule_files) :
        LET f == rule_files[n]
            S == TrueKeys(EntityOf(f).alerts) \cap Range(CatalogOf(f))
        IN  /\ Len(TypesOfFile(f)) = Cardinality(S)
            /\ Range(TypesOfFile(f)) = S

\* C1 witness: a rule file of an entity whose map enables seven keys and
\* sets another key to False.
C1_Witness ==
    \E n \in 1..Len(rule_files) :
        LET alerts == EntityOf(rule_files[n]).alerts IN
        /\ Cardinality(TrueKeys(alerts)) = 7
        /\ \E k \in Keys(alerts) : Lookup(alerts, k) = "False"
        /\ Len(TypesOfFile(rule_files[n])) = 7

\* C2 as stated: for every rule file written, of a bridge or of a
\* validator, the rules in output order are in catalog order restricted to
\* the enabled keys.
C2_CatalogOrder_Original ==
    \A n \in 1..Len(rule_files) :
        LET f == rule_files[n] IN
        TypesOfFile(f) = Restrict(CatalogOf(f), TrueKeys(EntityOf(f).alerts))

\* C2 amended: the rules of a bridge file in output order are in catalog
\* order restricted to the enabled keys; in a validator file the rules of
\* each group are in catalog order restricted to the keys of that group, and
\* the groups together hold the enabled keys; whatever the order of the keys
\* in the input map.
C2_CatalogOrder ==
    \A n \in 1..Len(rule_files) :
        LET f == rule_files[n]
            S == TrueKeys(EntityOf(f).alerts)
        IN  IF f.path.kind = "sui_bridge"
            THEN TypesOfFile(f) = Restrict(BridgeCatalogOrder, S)
            ELSE /\ \A m \in 1..Len(f.groups) :
                       TypesOfGroup(f.groups[m]) =
                           Restrict(ValidatorCatalogOrder, Range(TypesOfGroup(f.groups[m])))
                 /\ Range(TypesOfFile(f)) = S
                 /\ Len(TypesOfFile(f)) = Cardinality(S)

\* C2 witness: a validator file with two groups of two rules or more each,
\* written from a map whose keys are not in catalog order.
C2_Witness ==
    \E n \in 1..Len(rule_files) :
        LET f == rule_files[n]
            alerts == InputOf(f).alerts
        IN  /\ f.path.kind = "sui_validator"
            /\ Len(f.groups) = 2
            /\ Len(f.groups[1].rules) >= 2
            /\ Len(f.groups[2].rules) >= 2
            /\ [j \in 1..Len(alerts.items) |-> alerts.items[j].k]
                   # Restrict(ValidatorCatalogOrder, Keys(alerts))

\* the map holds every key of `valid` once, set to True, and no other key
IsAllTrueMap(alerts, valid) ==
    /\ alerts.tag = "dict"
    /\ Keys(alerts) = valid
    /\ Len(alerts.items) = Cardinality(valid)
    /\ \A j \in 1..Len(alerts.items) : alerts.items[j].v = "True"

\* C3: once the validation of a list has returned without an error, every
\* record of the list that holds no alerts key in config.yml holds the
\* all-true map of its kind: every valid key of the kind once, set to True,
\* and no other key.
C3_DefaultAlerts ==
    /\ BridgesValidated =>
          \A n \in 1..Len(config_file.bridges.items) :
              "alerts" \notin config_file.bridges.items[n].has =>
                  /\ "alerts" \in config.bridges.items[n].has
                  /\ IsAllTrueMap(config.bridges.items[n].alerts, valid_alert_types)
    /\ ValidatorsValidated =>
          \A n \in 1..Len(config_file.validators.items) :
              "alerts" \notin config_file.validators.items[n].has =>
                  /\ "alerts" \in config.validators.items[n].has
                  /\ IsAllTrueMap(config.validators.items[n].alerts,
                                  valid_validator_alert_types)

\* C3 witness: both lists are validated and each holds a record that came
\* without an alerts key.
C3_Witness ==
    /\ BridgesValidated
    /\ ValidatorsValidated
    /\ \E n \in 1..Len(config_file.bridges.items) :
          "alerts" \notin config_file.bridges.items[n].has
    /\ \E n \in 1..Len(config_file.validators.items) :
          "alerts" \notin config_file.validators.items[n].has

\* the alerts map of the example of the specification
C4_Example == DictAlerts(<<Pair("uptime", "True"), Pair("voting_power", "False")>>)

\* C4: for a record that supplies an alerts map in config.yml, the rule
\* file holds a rule for key k exactly when the supplied map holds k with
\* the value True; and the file of a bridge with the map
\* {uptime: true, voting_power: false} holds one group, the common one, with
\* the uptime rule alone.
C4_ExplicitMapAsIs ==
    \A n \in 1..Len(rule_files) :
        LET f == rule_files[n] IN
        "alerts" \in InputOf(f).has =>
            /\ Range(TypesOfFile(f)) = TrueKeys(InputOf(f).alerts)
            /\ (f.path.kind = "sui_bridge" /\ InputOf(f).alerts = C4_Example) =>
                  /\ Len(f.groups) = 1
                  /\ f.groups[1].list = "common"
                  /\ TypesOfGroup(f.groups[1]) = <<"uptime">>

\* C4 witness: the rule file of a bridge with the map of the example.
C4_Witness ==
    \E n \in 1..Len(rule_files) :
        /\ rule_files[n].path.kind = "sui_bridge"
        /\ "alerts" \in InputOf(rule_files[n]).has
        /\ InputOf(rule_files[n]).alerts = C4_Example
        /\ Len(rule_files[n].groups) = 1

\* the number of lists (categories) of the kind of a rule file: a bridge has
\* common, client-disabled and client-enabled, a validator critical and warning
CategoriesOf(f) == IF f.path.kind = "sui_bridge" THEN 3 ELSE 2

ValidKeysOf(f) ==
    IF f.path.kind = "sui_bridge" THEN valid_alert_types ELSE valid_validator_alert_types

\* C5 as stated: a record whose alerts map in config.yml is the empty map
\* holds the defaults of its kind after validation, and its rule file holds
\* as many groups as the kind has categories.
C5_EmptyMapFilled_Original ==
    \A n \in 1..Len(rule_files) :
        LET f == rule_files[n] IN
        ("alerts" \in InputOf(f).has /\ InputOf(f).alerts = DictAlerts(<<>>)) =>
            /\ IsAllTrueMap(EntityOf(f).alerts, ValidKeysOf(f))
            /\ Len(f.groups) = CategoriesOf(f)

\* C5 amended: a record that holds no alerts key in config.yml holds the
\* defaults of its kind after validation and its rule file holds as many
\* groups as the kind has categories (3 and 2); a record whose alerts map is
\* the empty map keeps the empty map and its rule file holds no group.
C5_EmptyMapKept ==
    \A n \in 1..Len(rule_files) :
        LET f == rule_files[n] IN
        /\ "alerts" \notin InputOf(f).has =>
              /\ IsAllTrueMap(EntityOf(f).alerts, ValidKeysOf(f))
              /\ Len(f.groups) = CategoriesOf(f)
        /\ ("alerts" \in InputOf(f).has /\ InputOf(f).alerts = DictAlerts(<<>>)) =>
              /\ EntityOf(f).alerts = DictAlerts(<<>>)
              /\ f.groups = <<>>

\* C5 witness: the rule files of a run are written, one of a record with the
\* empty map and one of a record without an alerts key.
C5_Witness ==
    /\ \E n \in 1..Len(rule_files) :
          /\ "alerts" \in InputOf(rule_files[n]).has
          /\ InputOf(rule_files[n]).alerts = DictAlerts(<<>>)
          /\ rule_files[n].groups = <<>>
    /\ \E n \in 1..Len(rule_files) :
          /\ "alerts" \notin InputOf(rule_files[n]).has
          /\ Len(rule_files[n].groups) = 3

\* What makes validation refuse a record, stated from the rules of the
\* configuration: a required field left out or empty, and an alerts entry
\* with a key outside the catalog of the kind or a value that is no boolean.
FieldDefect(e, required) ==
    \E field \in required : field \notin e.has \/ Field(e, field) = <<>>

AlertsDefect(e, catalog) ==
    /\ "alerts" \in e.has
    /\ e.alerts.tag = "dict"
    /\ \E j \in 1..Len(e.alerts.items) :
          \/ e.alerts.items[j].k \notin Range(catalog)
          \/ e.alerts.items[j].v \notin {"True", "False"}

\* a record validation accepts: a record with its required fields and with
\* no alerts key or an alerts map without a defect
Sound(e, required, catalog) ==
    /\ e.isdict
    /\ ~FieldDefect(e, required)
    /\ "alerts" \in e.has => e.alerts.tag = "dict"
    /\ ~AlertsDefect(e, catalog)

\* the position of the first record of a list that is not sound
FirstUnsound(items, required, catalog) ==
    CHOOSE n \in 1..Len(items) :
        /\ ~Sound(items[n], required, catalog)
        /\ \A m \in 1..(n - 1) : Sound(items[m], required, catalog)

\* the validation of the bridges list, and of the validators list, has run
BridgesChecked ==
    /\ config_file.bridges.tag = "list"
    /\ BridgesValidated \/ BridgesRefused

ValidatorsChecked ==
    /\ config_file.validators.tag = "list"
    /\ config_file.validators.items # <<>>
    /\ BridgesValidated
    /\ pc # "validate_validators"

\* C6: once the validation of a list of records has run: if a record holds
\* an alerts entry with a key outside the catalog of its kind or a value that
\* is no boolean, validation has raised an error that names the kind and the
\* position of the first record it refuses; if every record is sound,
\* validation has returned. The keys of the other kind are refused.
C6_AlertsValidation ==
    /\ BridgesChecked =>
          LET items == config_file.bridges.items IN
          /\ (\E n \in 1..Len(items) : items[n].isdict /\ AlertsDefect(items[n], BridgeCatalogOrder))
                => /\ BridgesRefused
                   /\ error.who = "Bridge"
                   /\ error.index = FirstUnsound(items, RequiredOfBridge, BridgeCatalogOrder) - 1
          /\ (\A n \in 1..Len(items) : Sound(items[n], RequiredOfBridge, BridgeCatalogOrder))
                => BridgesValidated
    /\ ValidatorsChecked =>
          LET items == config_file.validators.items IN
          /\ (\E n \in 1..Len(items) : items[n].isdict /\ AlertsDefect(items[n], ValidatorCatalogOrder))
                => /\ ValidatorsRefused
                   /\ error.who = "Validator"
                   /\ error.index = FirstUnsound(items, RequiredOfValidator, ValidatorCatalogOrder) - 1
          /\ (\A n \in 1..Len(items) : Sound(items[n], RequiredOfValidator, ValidatorCatalogOrder))
                => ValidatorsValidated

\* C6 witness: validation has refused the second validator of a list for a
\* key of the bridge catalog.
C6_Witness ==
    /\ ValidatorsRefused
    /\ error.index = 1
    /\ error.reason = "invalid alert type"
    /\ error.field = "ingress_access"

\* C7: once the validation of a list of records has run, it has raised if a
\* record of the list lacks a required field or holds it empty (alias and
\* target, and public_address for a bridge); a list of validators without
\* public_address and without another defect is accepted.
C7_RequiredFields ==
    /\ BridgesChecked =>
          ((\E n \in 1..Len(config_file.bridges.items) :
                /\ config_file.bridges.items[n].isdict
                /\ FieldDefect(config_file.bridges.items[n], {"alias", "target", "public_address"}))
           => BridgesRefused)
    /\ ValidatorsChecked =>
          LET items == config_file.validators.items IN
          /\ (\E n \in 1..Len(items) :
                 items[n].isdict /\ FieldDefect(items[n], {"alias", "target"}))
               => ValidatorsRefused
          /\ (\A n \in 1..Len(items) :
                 /\ "public_address" \notin items[n].has
                 /\ Sound(items[n], {"alias", "target"}, ValidatorCatalogOrder))
               => ValidatorsValidated

\* C7 witness: validation has refused a bridge whose public_address is empty
\* after it accepted the bridge before it.
C7_Witness ==
    /\ BridgesRefused
    /\ error.index = 1
    /\ error.reason = "cannot be empty"
    /\ error.field = "public_address"

\* a value that is in config.yml and is no list of records
NotRecords(value) ==
    /\ value.tag # "absent"
    /\ value.tag # "list" \/ \E n \in 1..Len(value.items) : ~value.items[n].isdict

\* C8 as stated: when the bridges value or the validators value is present
\* and is no list of records, the run does not go on to generation: it
\* writes no scrape configuration and no later artifact.
C8_NonListRefused ==
    (NotRecords(config_file.bridges) \/ NotRecords(config_file.validators)) =>
        /\ prometheus_file = <<>>
        /\ rule_files = <<>>
        /\ pc # "done"

\* what C9 asks of one record `e` that config.yml holds as `input`
C9_Record(e, input, valid) ==
    /\ "alerts" \in e.has
    /\ e.alerts.tag = "dict"
    /\ Keys(e.alerts) \subseteq valid
    /\ \A j \in 1..Len(e.alerts.items) : e.alerts.items[j].v \in {"True", "False"}
    /\ "alerts" \in input.has => Keys(e.alerts) \subseteq Keys(input.alerts)

\* C9: once the validation of a list has returned without an error, the
\* alerts map of every record of the list holds keys of the kind only, with
\* boolean values, and the map of a record that supplied one in config.yml
\* holds no key the supplied map did not hold.
C9_ValidatedAlerts ==
    /\ BridgesValidated =>
          \A n \in 1..Len(config.bridges.items) :
              C9_Record(config.bridges.items[n], config_file.bridges.items[n],
                        valid_alert_types)
    /\ ValidatorsValidated =>
          \A n \in 1..Len(config.validators.items) :
              C9_Record(config.validators.items[n], config_file.validators.items[n],
                        valid_validator_alert_types)

\* C9 witness: a run is through with a bridge that supplied a map of two
\* keys and still holds two keys.
C9_Witness ==
    /\ pc = "done"
    /\ \E n \in 1..Len(config.bridges.items) :
          /\ "alerts" \in config_file.bridges.items[n].has
          /\ Len(config_file.bridges.items[n].alerts.items) = 2
          /\ Len(config.bridges.items[n].alerts.items) = 2

\* C10: no group of a rule file is empty, and the groups of a file are in
\* the order common, client-disabled, client-enabled for a bridge and
\* critical, warning for a validator.
C10_NoEmptyGroup ==
    \A n \in 1..Len(rule_files) :
        LET f == rule_files[n]
            names == [m \in 1..Len(f.groups) |-> f.groups[m].list]
            order == IF f.path.kind = "sui_bridge"
                     THEN <<"common", "client_disabled", "client_enabled">>
                     ELSE <<"critical", "warning">>
        IN  /\ \A m \in 1..Len(f.groups) : f.groups[m].rules # <<>>
            /\ names = Restrict(order, Range(names))

\* C10 witness: a bridge file that holds the common and the client-enabled
\* group and, for want of an enabled rule, no client-disabled group.
C10_Witness ==
    \E n \in 1..Len(rule_files) :
        /\ rule_files[n].path.kind = "sui_bridge"
        /\ Len(rule_files[n].groups) = 2
        /\ rule_files[n].groups[1].list = "common"
        /\ rule_files[n].groups[2].list = "client_enabled"

---------------------------------------------------------------------------
(* Rule files per entity *)

\* both loops over the entities have ended
RuleFilesWritten ==
    \/ pc \in {"alertmanager", "export_bridges", "export_validators", "done"}
    \/ pc = "failed" /\ error.reason = "invalid literal for int()"

\* the paths of the rule files written, in the order of writing
RulePaths == [n \in 1..Len(rule_files) |-> rule_files[n].path]

\* once both loops have ended there is one file per validated bridge and
\* then one per validated validator, each under its own path
OneFilePerEntity ==
    LET nb == Len(config.bridges.items)
        nv == Len(ValidatorsOf(config).items)
    IN  /\ Len(rule_files) = nb + nv
        /\ Cardinality(Range(RulePaths)) = nb + nv
        /\ \A n \in 1..nb :
              RulePaths[n].kind = "sui_bridge" /\ RulePaths[n].index = n - 1
        /\ \A n \in 1..nv :
              RulePaths[nb + n].kind = "sui_validator" /\ RulePaths[nb + n].index = n - 1

\* C11 as stated: one rule file per validated entity, and every rule file
\* written holds one or more groups.
C11_RuleFiles_Original ==
    /\ RuleFilesWritten => OneFilePerEntity
    /\ \A n \in 1..Len(rule_files) : rule_files[n].groups # <<>>

\* C11 as amended: one rule file per validated entity; a rule file holds
\* one or more groups exactly when the validated alerts map of its entity
\* sets a key to True, and no group when the map is empty or all False.
C11_RuleFiles ==
    /\ RuleFilesWritten => OneFilePerEntity
    /\ \A n \in 1..Len(rule_files) :
          (rule_files[n].groups # <<>>)
              <=> (TrueKeys(EntityOf(rule_files[n]).alerts) # {})

\* C11 witness: a run is through with two bridges of the same alias and
\* a validator; the file of one bridge holds no group, the others do.
C11_Witness ==
    /\ pc = "done"
    /\ Len(rule_files) = 3
    /\ rule_files[1].path.safe_alias = rule_files[2].path.safe_alias
    /\ rule_files[1].groups = <<>>
    /\ rule_files[2].groups # <<>>
    /\ rule_files[3].groups # <<>>

---------------------------------------------------------------------------
(* Notification routing *)

\* the credentials config.yml holds: a value that is not empty (for a chat
\* id written as a number: not 0)
PagerdutyPresent == config_file.pagerduty_key # <<>>

BotTokenPresent == config_file.telegram_bot_token # <<>>

ChatIdPresent ==
    LET c == config_file.telegram_chat_id IN
    IF c.tag = "int" THEN c.n # 0 ELSE Len(c.chars) > 0

DiscordPresent == config_file.discord_webhook_url # <<>>

\* the receiver `name` of the document written
ReceiverOf(doc, name) ==
    CHOOSE r \in Range(doc.receivers) : r.name = name

\* C12: in every routing document written, the critical receiver holds the
\* webhook channel, the PagerDuty channel iff an integration key is present,
\* the Telegram channel iff a bot token and a chat id are present, the
\* Discord channel iff a webhook URL is present, and no other channel; with
\* telegram alone its channels are exactly webhook and telegram.
C12_CriticalReceiver ==
    \A n \in 1..Len(alertmanager_file) :
        LET channels == ReceiverOf(alertmanager_file[n], "critical").configs IN
        /\ "webhook_configs" \in channels
        /\ "pagerduty_configs" \in channels <=> PagerdutyPresent
        /\ "telegram_configs" \in channels <=> (BotTokenPresent /\ ChatIdPresent)
        /\ "discord_configs" \in channels <=> DiscordPresent
        /\ channels \subseteq {"webhook_configs", "pagerduty_configs",
                               "telegram_configs", "discord_configs"}
        /\ (BotTokenPresent /\ ChatIdPresent /\ ~PagerdutyPresent /\ ~DiscordPresent)
              => channels = {"webhook_configs", "telegram_configs"}

\* C12 witness: a document written for telegram credentials alone, and its
\* critical receiver holds the webhook and the Telegram channel.
C12_Witness ==
    /\ alertmanager_file # <<>>
    /\ BotTokenPresent /\ ChatIdPresent /\ ~PagerdutyPresent /\ ~DiscordPresent
    /\ ReceiverOf(alertmanager_file[1], "critical").configs
          = {"webhook_configs", "telegram_configs"}

\* C13: in every routing document written, the warning receiver holds the
\* webhook channel, never the PagerDuty channel, and the Telegram and the
\* Discord channel exactly when the critical receiver holds them (a bot
\* token with a chat id, and a webhook URL, present).
C13_WarningReceiver ==
    \A n \in 1..Len(alertmanager_file) :
        LET warning  == ReceiverOf(alertmanager_file[n], "warning").configs
            critical == ReceiverOf(alertmanager_file[n], "critical").configs
        IN  /\ "webhook_configs" \in warning
            /\ "pagerduty_configs" \notin warning
            /\ "telegram_configs" \in warning <=> "telegram_configs" \in critical
            /\ "telegram_configs" \in warning <=> (BotTokenPresent /\ ChatIdPresent)
            /\ "discord_configs" \in warning <=> "discord_configs" \in critical
            /\ "discord_configs" \in warning <=> DiscordPresent
            /\ warning \subseteq {"webhook_configs", "telegram_configs", "discord_configs"}

\* C13 witness: a document written with every credential present: the
\* critical receiver pages, the warning receiver holds the three others.
C13_Witness ==
    /\ alertmanager_file # <<>>
    /\ PagerdutyPresent /\ BotTokenPresent /\ ChatIdPresent /\ DiscordPresent
    /\ "pagerduty_configs" \in ReceiverOf(alertmanager_file[1], "critical").configs
    /\ ReceiverOf(alertmanager_file[1], "warning").configs
          = {"webhook_configs", "telegram_configs", "discord_configs"}

\* a chat id written as a str that is no number: it holds a letter, or it
\* ends with an underscore
ChatIdNotInteger ==
    LET c == config_file.telegram_chat_id IN
    /\ c.tag = "str"
    /\ c.chars # <<>>
    /\ \/ \E j \in 1..Len(c.chars) : c.chars[j] \in {"a", "b"}
       \/ c.chars[Len(c.chars)] = "_"

\* C14: with a bot token and a chat id that is no integer, no routing
\* document is ever written and the run never gets to the export or to its
\* end; once the routing stage has run, the run has failed with the error
\* of the conversion.
C14_NonNumericChatId ==
    (BotTokenPresent /\ ChatIdNotInteger) =>
        /\ alertmanager_file = <<>>
        /\ pc \notin {"export_bridges", "export_validators", "done"}
        /\ pc = "failed" => error.reason = "invalid literal for int()"

\* C14 witness: the run has failed in the routing stage for the chat id
\* "ab" given with a bot token; the scrape configuration and the rule files
\* are written, the routing document is not.
C14_Witness ==
    /\ BotTokenPresent
    /\ config_file.telegram_chat_id = StrValue(<<"a", "b">>)
    /\ pc = "failed"
    /\ error.reason = "invalid literal for int()"
    /\ prometheus_file # <<>>
    /\ rule_files # <<>>
    /\ alertmanager_file = <<>>

---------------------------------------------------------------------------
(* Scrape configuration *)

\* the metrics job of the bridge and of the validator at position n (from 1)
\* in the scrape configuration written
MetricsJobOfBridge(n) == prometheus_file[3 * n - 1]

MetricsJobOfValidator(n) == prometheus_file[1 + 3 * Len(config.bridges.items) + n]

\* the targets of the entities next to their metrics jobs
TargetsAndJobs ==
    IF prometheus_file = <<>> THEN {}
    ELSE { <<config.bridges.items[n].target, MetricsJobOfBridge(n)>> :
               n \in 1..Len(config.bridges.items) }
         \cup { <<ValidatorsOf(config).items[n].target, MetricsJobOfValidator(n)>> :
                  n \in 1..Len(ValidatorsOf(config).items) }

\* x begins with the characters of p
HasPrefix(x, p) == Len(x) >= Len(p) /\ \A j \in 1..Len(p) : x[j] = p[j]

\* x without its first n characters
WithoutFirst(x, n) == [j \in 1..(Len(x) - n) |-> x[j + n]]

\* the scrape configuration of one bridge and one validator is written
OneOfEachScraped ==
    /\ prometheus_file # <<>>
    /\ Len(config.bridges.items) = 1
    /\ Len(ValidatorsOf(config).items) = 1

\* C15: the metrics job of every entity has scheme https and the target
\* without its first 8 characters when the target starts with https://,
\* else scheme http and the target without its first 7 characters when it
\* starts with http://, else scheme http and the target unchanged.
C15_SchemeInference ==
    \A tj \in TargetsAndJobs :
        LET x == tj[1]
            job == tj[2]
        IN  IF HasPrefix(x, HttpsPrefix)
                THEN job.scheme = "https" /\ job.targets = <<WithoutFirst(x, 8)>>
            ELSE IF HasPrefix(x, HttpPrefix)
                THEN job.scheme = "http" /\ job.targets = <<WithoutFirst(x, 7)>>
            ELSE job.scheme = "http" /\ job.targets = <<x>>

\* C15 witness: the bridge target http://10.0.0.1:9100 is scraped as
\* 10.0.0.1:9100 with scheme http, and a validator target with https:// is
\* scraped with scheme https.
C15_Witness ==
    /\ OneOfEachScraped
    /\ config.bridges.items[1].target = ExampleTarget
    /\ MetricsJobOfBridge(1).scheme = "http"
    /\ MetricsJobOfBridge(1).targets =
          << <<"1", "0", ".", "0", ".", "0", ".", "1", ":", "9", "1", "0", "0">> >>
    /\ ValidatorsOf(config).items[1].target = HttpsPrefix \o HostPort
    /\ MetricsJobOfValidator(1).scheme = "https"
    /\ MetricsJobOfValidator(1).targets = <<HostPort>>

\* the scheme and the clean target of a job, as scheme detection returns them
ResultOf(job) == [scheme |-> job.scheme, clean_target |-> job.targets[1]]

\* a target that starts with neither scheme
Plain(x) == ~HasPrefix(x, HttpPrefix) /\ ~HasPrefix(x, HttpsPrefix)

\* C16 as stated: scheme detection applied to the clean target of a job
\* returns the scheme and the clean target of the job.
C16_Idempotent_Original ==
    \A tj \in TargetsAndJobs : StripScheme(tj[2].targets[1]) = ResultOf(tj[2])

\* C16 as amended: when the clean target of a job starts with no scheme,
\* scheme detection applied to it returns it unchanged with scheme http;
\* the second result equals the first exactly when, besides, the target
\* does not start with https://.
C16_Idempotent ==
    \A tj \in TargetsAndJobs :
        LET x == tj[1]
            once == ResultOf(tj[2])
            twice == StripScheme(once.clean_target)
        IN  /\ Plain(once.clean_target) =>
                  twice.clean_target = once.clean_target /\ twice.scheme = "http"
            /\ (twice = once) <=> (Plain(once.clean_target) /\ ~HasPrefix(x, HttpsPrefix))

\* C16 witness: a scrape configuration with the job of a bridge whose target
\* holds the prefix http:// twice and the job of a validator with an https
\* target; a second detection changes the first and agrees with neither.
C16_Witness ==
    /\ OneOfEachScraped
    /\ config.bridges.items[1].target = HttpPrefix \o HttpPrefix \o HostPort
    /\ StripScheme(MetricsJobOfBridge(1).targets[1]).clean_target = HostPort
    /\ ValidatorsOf(config).items[1].target = HttpsPrefix \o HostPort
    /\ StripScheme(MetricsJobOfValidator(1).targets[1]).scheme = "http"
    /\ MetricsJobOfValidator(1).scheme = "https"

\* the characters of the scheme of a job
SchemeText(scheme) ==
    IF scheme = "https" THEN <<"h", "t", "t", "p", "s">> ELSE <<"h", "t", "t", "p">>

\* C17: for every entity, scheme + "://" + clean target of its metrics job
\* is the target when the target starts with http:// or https://, and
\* "http://" + target otherwise.
C17_Lossless ==
    \A tj \in TargetsAndJobs :
        LET x == tj[1]
            rebuilt == SchemeText(tj[2].scheme) \o <<":", "/", "/">> \o tj[2].targets[1]
        IN  /\ tj[2].scheme \in {"http", "https"}
            /\ rebuilt = IF HasPrefix(x, HttpPrefix) \/ HasPrefix(x, HttpsPrefix)
                            THEN x
                            ELSE <<"h", "t", "t", "p", ":", "/", "/">> \o x

\* C17 witness: a scrape configuration for a bridge target without a scheme
\* and a validator target with the prefixes https:// and then http://.
C17_Witness ==
    /\ OneOfEachScraped
    /\ config.bridges.items[1].target = HostPort
    /\ MetricsJobOfBridge(1).targets = <<HostPort>>
    /\ ValidatorsOf(config).items[1].target = HttpsPrefix \o HttpPrefix \o HostPort
    /\ MetricsJobOfValidator(1).targets = <<HttpPrefix \o HostPort>>

\* C18: the scrape configuration written holds the job prometheus first,
\* then for each bridge in input order its metrics, health-probe and
\* ingress-probe job, then for each validator in input order its metrics
\* job alone; 1 + 3 * bridges + validators jobs in all.
C18_ScrapeJobs ==
    prometheus_file # <<>> =>
        LET B == config.bridges.items
            V == ValidatorsOf(config).items
        IN  /\ Len(prometheus_file) = 1 + 3 * Len(B) + Len(V)
            /\ prometheus_file[1].job = "prometheus"
            /\ \A n \in 1..Len(B) :
                  /\ prometheus_file[3 * n - 1].job = "sui_bridge"
                  /\ prometheus_file[3 * n - 1].service = "sui_bridge"
                  /\ prometheus_file[3 * n].job = "sui_bridge_metrics_public_key_check"
                  /\ prometheus_file[3 * n].service = "sui_bridge_health_check"
                  /\ prometheus_file[3 * n + 1].job = "sui_bridge_ingress_check"
                  /\ prometheus_file[3 * n + 1].service = "sui_bridge_ingress_check"
                  /\ \A m \in {3 * n - 1, 3 * n, 3 * n + 1} :
                        prometheus_file[m].alias = B[n].alias
            /\ \A n \in 1..Len(V) :
                  /\ prometheus_file[1 + 3 * Len(B) + n].job = "sui_validator"
                  /\ prometheus_file[1 + 3 * Len(B) + n].service = "sui_validator"
                  /\ prometheus_file[1 + 3 * Len(B) + n].alias = V[n].alias

\* C18 witness: the scrape configuration of two bridges of different alias
\* and one validator holds eight jobs.
C18_Witness ==
    /\ Len(prometheus_file) = 8
    /\ Len(config.bridges.items) = 2
    /\ config.bridges.items[1].alias # config.bridges.items[2].alias
    /\ prometheus_file[2].alias = config.bridges.items[1].alias
    /\ prometheus_file[5].alias = config.bridges.items[2].alias
    /\ prometheus_file[8].job = "sui_validator"

---------------------------------------------------------------------------
(* Order of the stages *)

\* the rule file at position n of the order of writing belongs to the
\* bridge at that position, or past the bridges to the validator there
RuleFilesInInputOrder ==
    LET nb == Len(config.bridges.items) IN
    \A n \in 1..Len(rule_files) :
        IF n <= nb
            THEN RulePaths[n].kind = "sui_bridge" /\ RulePaths[n].index = n - 1
            ELSE /\ RulePaths[n].kind = "sui_validator"
                 /\ RulePaths[n].index = n - nb - 1
                 /\ n - nb <= Len(ValidatorsOf(config).items)

\* C19: nothing is written before both lists are validated; rule files are
\* written only after the scrape configuration, bridges first and each kind
\* in input order; the routing document only after every rule file; the
\* export only after the routing document, bridges before validators.
C19_StageOrder ==
    /\ pc \in {"load", "validate_bridges", "validate_validators"} =>
          /\ prometheus_file = <<>> /\ rule_files = <<>> /\ alertmanager_file = <<>>
          /\ stdout = <<>> /\ json_files = <<>>
    /\ pc = "validate_bridges" => config = config_file
    /\ prometheus_file # <<>> => BridgesValidated
    /\ rule_files # <<>> => prometheus_file # <<>>
    /\ RuleFilesInInputOrder
    /\ alertmanager_file # <<>> =>
          /\ prometheus_file # <<>>
          /\ Len(rule_files) = Len(config.bridges.items) + Len(ValidatorsOf(config).items)
    /\ (stdout # <<>> \/ json_files # <<>>) => alertmanager_file # <<>>
    /\ \A n \in 1..Len(json_files) :
          json_files[n].path = IF n = 1 THEN "generated_configs/bridges.json"
                               ELSE "generated_configs/validators.json"
    /\ Len(json_files) <= 2
    /\ pc = "done" =>
          /\ prometheus_file # <<>> /\ alertmanager_file # <<>> /\ stdout # <<>>

\* C19 witness: the run of two bridges and a validator is through: scrape
\* configuration, three rule files, routing document and both exports.
C19_Witness ==
    /\ pc = "done"
    /\ prometheus_file # <<>>
    /\ Len(rule_files) = 3
    /\ rule_files[2].path.kind = "sui_bridge"
    /\ rule_files[3].path.kind = "sui_validator"
    /\ alertmanager_file # <<>>
    /\ Len(json_files) = 2

---------------------------------------------------------------------------
(* Flat export *)

\* the export lines of variable `var` for the entity at position index
\* (from 0) and the alert key `key`
ExportLines(var, index, key) ==
    { n \in 1..Len(stdout) :
        stdout[n].var = var /\ stdout[n].index = index /\ stdout[n].key = key }

\* the export holds the alias, the target and one flag per key of the alerts
\* map of the entity e at position index
ExportsEntity(prefix, index, e) ==
    /\ \E n \in ExportLines(prefix \o "_ALIAS", index, "") : stdout[n].value = e.alias
    /\ \E n \in ExportLines(prefix \o "_TARGET", index, "") : stdout[n].value = e.target
    /\ \A k \in Keys(e.alerts) :
          /\ Cardinality(ExportLines(prefix \o "_ALERT", index, k)) = 1
          /\ \A n \in ExportLines(prefix \o "_ALERT", index, k) :
                stdout[n].value = IF Lookup(e.alerts, k) = "True"
                                  THEN <<"true">> ELSE <<"false">>

\* C20 as stated: a run that is through has exported, for every validated
\* bridge and every validated validator, the alias, the target and one flag
\* per key of its alerts map, and the number of entities of each kind.
C20_FlatExport ==
    pc = "done" =>
        LET B == config.bridges.items
            V == ValidatorsOf(config).items
        IN  /\ ExportLines("SUI_BRIDGES_COUNT", Len(B), "") # {}
            /\ \A n \in 1..Len(B) : ExportsEntity("SUI_BRIDGE", n - 1, B[n])
            /\ V # <<>> => ExportLines("SUI_VALIDATORS_COUNT", Len(V), "") # {}
            /\ \A n \in 1..Len(V) : ExportsEntity("SUI_VALIDATOR", n - 1, V[n])

---------------------------------------------------------------------------
(* Determinism and repeated validation *)

\* the lists as validation leaves them for the content of config.yml
BridgesOfInput == validate_bridges_config(config_file.bridges).value

ValidatorsOfInput ==
    IF IsTruthy(ValidatorsOf(config_file))
        THEN validate_validators_config(config_file.validators).value
        ELSE ValidatorsOf(config_file)

\* the rule files a complete run writes for the content of config.yml
RuleFilesOfInput ==
    [n \in 1..Len(BridgesOfInput.items) |->
        generate_alert_rules(n - 1, BridgesOfInput.items[n])]
    \o [n \in 1..Len(ValidatorsOfInput.items) |->
        generate_validator_alert_rules(n - 1, ValidatorsOfInput.items[n],
                                       config_file.sui_validator)]

\* the export lines a complete run prints for the content of config.yml
StdoutOfInput ==
    export_bridge_variables(BridgesOfInput, config_file.sui_validator)
    \o (IF IsTruthy(ValidatorsOf(config_file))
            THEN export_validator_variables(ValidatorsOfInput) ELSE <<>>)

\* s is the beginning of t
IsPrefix(s, t) == Len(s) <= Len(t) /\ \A n \in 1..Len(s) : s[n] = t[n]

\* C21: what a run has written is fixed by the content of config.yml alone
\* (the scrape configuration, the rule files with their groups and rules in
\* order, the routing document and the export lines are those of the
\* input, whatever run wrote them), and validating the validated lists once
\* more raises nothing, changes no record and gives the same artifacts.
C21_Deterministic ==
    /\ prometheus_file # <<>> =>
          /\ prometheus_file = scrape_configs(BridgesOfInput, ValidatorsOfInput)
          /\ prometheus_file =
                scrape_configs(validate_bridges_config(config.bridges).value,
                               IF IsTruthy(ValidatorsOf(config))
                                   THEN validate_validators_config(config.validators).value
                                   ELSE ValidatorsOf(config))
    /\ IsPrefix(rule_files, RuleFilesOfInput)
    /\ alertmanager_file # <<>> => alertmanager_file = <<alertmanager_config(config_file)>>
    /\ IsPrefix(stdout, StdoutOfInput)
    /\ pc = "done" => rule_files = RuleFilesOfInput /\ stdout = StdoutOfInput
    /\ BridgesValidated =>
          validate_bridges_config(config.bridges)
              = [value |-> config.bridges, error |-> NoError]
    /\ ValidatorsValidated =>
          validate_validators_config(config.validators)
              = [value |-> config.validators, error |-> NoError]

\* C21 witness: a run is through for a bridge and a validator that came
\* without alerts, so that validation has changed both records.
C21_Witness ==
    /\ pc = "done"
    /\ Len(config.bridges.items) = 1
    /\ Len(config.validators.items) = 1
    /\ "alerts" \notin config_file.bridges.items[1].has
    /\ "alerts" \notin config_file.validators.items[1].has
    /\ "alerts" \in config.validators.items[1].has
    /\ Len(rule_files) = 2
    /\ stdout # <<>>

---------------------------------------------------------------------------
(* Labels and expressions of the rules *)

\* the rules of a file, in output order
RulesOfFile(f) == Flatten([n \in 1..Len(f.groups) |-> f.groups[n].rules])

\* the rule names the authority in its expression
ReferencesAuthority(f, r) ==
    \/ f.path.kind = "sui_bridge" /\ r.alert_type = "voting_power"
    \/ f.path.kind = "sui_validator"
          /\ r.alert_type \in {"reputation_rank", "fullnode_connectivity"}

\* C22 as stated: every rule that names the authority in its expression
\* (bridge voting_power, validator reputation_rank and fullnode_connectivity)
\* holds the value of sui.validator there, and none holds a placeholder.
C22_AuthoritySubstituted ==
    \A n \in 1..Len(rule_files) :
        \A m \in 1..Len(RulesOfFile(rule_files[n])) :
            LET r == RulesOfFile(rule_files[n])[m] IN
            ReferencesAuthority(rule_files[n], r) =>
                /\ r.authority = config_file.sui_validator
                /\ r.authority # "${SUI_VALIDATOR}"

\* C23: every rule of the entity at 0-based position i of its list holds
\* the index i, the alias of that entity, and as alert_type a key its alerts
\* map sets to True; the files of a kind are written at positions 0, 1, ...
\* in input order.
C23_RuleLabels ==
    LET nb == Len(config.bridges.items) IN
    \A n \in 1..Len(rule_files) :
        LET pos == IF n <= nb THEN n - 1 ELSE n - nb - 1
            e == IF n <= nb THEN config.bridges.items[pos + 1]
                 ELSE config.validators.items[pos + 1]
            rules == RulesOfFile(rule_files[n])
        IN  /\ rule_files[n].path.kind = IF n <= nb THEN "sui_bridge" ELSE "sui_validator"
            /\ rule_files[n].path.index = pos
            /\ \A m \in 1..Len(rules) :
                  /\ rules[m].index = pos
                  /\ rules[m].alias = e.alias
                  /\ rules[m].alert_type \in TrueKeys(e.alerts)

\* C23 witness: two bridges of different alias and a validator have their
\* rule files; the rules of the second bridge hold index 1 and its alias,
\* those of the validator index 0.
C23_Witness ==
    /\ Len(rule_files) = 3
    /\ Len(config.bridges.items) = 2
    /\ config.bridges.items[1].alias # config.bridges.items[2].alias
    /\ RulesOfFile(rule_files[2]) # <<>>
    /\ RulesOfFile(rule_files[2])[1].index = 1
    /\ RulesOfFile(rule_files[2])[1].alias = config.bridges.items[2].alias
    /\ RulesOfFile(rule_files[3]) # <<>>
    /\ RulesOfFile(rule_files[3])[1].index = 0

---------------------------------------------------------------------------
(* What the stages change *)

\* a record after a step, next to the record before it: everything but a
\* missing alerts map is as before, and a missing map is still missing or
\* is the map `defaults`
RecordKept(old, new, defaults) ==
    /\ new.isdict = old.isdict
    /\ new.alias = old.alias
    /\ new.target = old.target
    /\ new.public_address = old.public_address
    /\ IF "alerts" \in old.has
          THEN new.has = old.has /\ new.alerts = old.alerts
          ELSE \/ new = old
               \/ new.has = old.has \cup {"alerts"} /\ new.alerts = defaults

ListKept(old, new, defaults) ==
    /\ new.tag = old.tag
    /\ new.truthy = old.truthy
    /\ Len(new.items) = Len(old.items)
    /\ \A n \in 1..Len(old.items) : RecordKept(old.items[n], new.items[n], defaults)

\* C24: no step changes the content of config.yml; a step of the scrape,
\* rule, routing or export stage leaves the loaded config with every record
\* as it is; the validation of a list changes nothing but that list, and
\* there nothing but a missing alerts map, which it sets to the defaults.
C24_OnlyValidationMutates ==
    [][ /\ config_file' = config_file
        /\ pc \notin {"validate_bridges", "validate_validators"} => config' = config
        /\ pc = "validate_bridges" =>
              /\ [config' EXCEPT !.bridges = config.bridges] = config
              /\ ListKept(config.bridges, config'.bridges, get_default_alerts)
        /\ pc = "validate_validators" =>
              /\ [config' EXCEPT !.validators = config.validators] = config
              /\ ListKept(config.validators, config'.validators,
                          get_default_validator_alerts) ]_vars

\* C24 witness: a run is through with two bridges; validation has given
\* the first its defaults and has left the supplied map of the second, and
\* the later stages have left both as validation left them.
C24_Witness ==
    /\ pc = "done"
    /\ Len(config.bridges.items) = 2
    /\ "alerts" \notin config_file.bridges.items[1].has
    /\ config.bridges.items[1].alerts = get_default_alerts
    /\ "alerts" \in config_file.bridges.items[2].has
    /\ config.bridges.items[2] = config_file.bridges.items[2]
    /\ config.bridges.items[1].target = config_file.bridges.items[1].target
    /\ json_files # <<>>

---------------------------------------------------------------------------
(* Independence of the entities *)

\* validated records to put in the place of the other entities of a list
OtherBridges ==
    { Entity({"alias", "target", "public_address", "alerts"}, <<"z">>,
             HttpsPrefix \o <<"z", ":", "1">>, <<"https://zeta.example.com">>, m) :
        m \in {get_default_alerts, DictAlerts(<<>>)} }

OtherValidators ==
    { Entity({"alias", "target", "alerts"}, <<"y">>, HttpsPrefix \o <<"y", ":", "2">>,
             <<>>, m) :
        m \in {get_default_validator_alerts, DictAlerts(<<>>)} }

\* the list `items` with x in every place but place n
OthersReplaced(items, n, x) ==
    ListValue([m \in 1..Len(items) |-> IF m = n THEN items[n] ELSE x])

\* C25: the scrape jobs of an entity in the scrape configuration written
\* are the jobs the same position gets in a list that agrees with the input
\* on that record and holds other records (of another alias, scheme and
\* alerts) everywhere else; the rule file written for an entity, name and
\* groups, is the one its position, its record and the authority give.
C25_Independent ==
    LET B == config.bridges.items
        V == ValidatorsOf(config).items
    IN  /\ prometheus_file # <<>> =>
              \A x \in OtherBridges, y \in OtherValidators :
                  /\ \A n \in 1..Len(B) :
                        LET other == scrape_configs(OthersReplaced(B, n, x),
                                        ListValue([m \in 1..Len(V) |-> y]))
                        IN  \A k \in {3 * n - 1, 3 * n, 3 * n + 1} :
                                other[k] = prometheus_file[k]
                  /\ \A n \in 1..Len(V) :
                        LET other == scrape_configs(ListValue([m \in 1..Len(B) |-> x]),
                                        OthersReplaced(V, n, y))
                        IN  other[1 + 3 * Len(B) + n] = prometheus_file[1 + 3 * Len(B) + n]
        /\ \A n \in 1..Len(rule_files) :
              LET pos == rule_files[n].path.index IN
              rule_files[n] =
                  IF rule_files[n].path.kind = "sui_bridge"
                      THEN generate_alert_rules(pos, B[pos + 1])
                      ELSE generate_validator_alert_rules(pos, V[pos + 1],
                                                          config.sui_validator)

\* C25 witness: the scrape configuration and the rule files of two bridges,
\* the second with a target without a scheme, and of a validator are
\* written.
C25_Witness ==
    /\ Len(config.bridges.items) = 2
    /\ Len(prometheus_file) = 8
    /\ config.bridges.items[1].target = TargetHttp
    /\ config.bridges.items[2].target = HostPort
    /\ prometheus_file[5].scheme = "http"
    /\ Len(rule_files) = 3

---------------------------------------------------------------------------
(* Failures *)

\* nothing is written: no scrape configuration, rule file, routing document
\* or JSON file, and no export line
NothingWritten ==
    /\ prometheus_file = <<>>
    /\ rule_files = <<>>
    /\ alertmanager_file = <<>>
    /\ json_files = <<>>
    /\ stdout = <<>>

\* main has ended the run for want of a bridges section
BridgesMissing == pc = "failed" /\ error.reason = "No 'bridges' section found"

\* C26: in a run that the validation of the bridges or of the validators
\* has ended, or the missing bridges section, nothing is written.
C26_NoArtifactOnRefusal ==
    (BridgesRefused \/ ValidatorsRefused \/ BridgesMissing) => NothingWritten

\* C26 witness: the bridges passed validation, the second validator of the
\* list was refused, and nothing is written.
C26_Witness ==
    /\ ValidatorsRefused
    /\ error.who = "Validator"
    /\ error.index = 1
    /\ config.bridges.items # <<>>
    /\ NothingWritten

\* C27: in a run with a bot token and a chat id that is no integer no
\* routing document, JSON file or export line is ever written, no error
\* comes up before the routing stage, and when the run has failed the
\* scrape configuration and the rule file of every bridge and validator
\* are written.
C27_FailsInRoutingStage ==
    (BotTokenPresent /\ ChatIdNotInteger /\ BridgesValidated /\ ~ValidatorsRefused) =>
        /\ alertmanager_file = <<>> /\ json_files = <<>> /\ stdout = <<>>
        /\ pc \in {"validate_validators", "prometheus", "bridge_rules", "validator_rules",
                    "alertmanager"} => error = NoError
        /\ pc \in {"validate_validators", "prometheus", "bridge_rules", "validator_rules",
                    "alertmanager", "failed"}
        /\ pc = "failed" =>
              /\ error.reason = "invalid literal for int()"
              /\ prometheus_file # <<>>
              /\ Len(prometheus_file) = 1 + 3 * Len(config.bridges.items)
                                           + Len(ValidatorsOf(config).items)
              /\ OneFilePerEntity

\* C27 witness: the run has failed in the routing stage for the chat id
\* "4_"; the scrape configuration and the rule files of the bridge and of
\* the validator are written and nothing else is.
C27_Witness ==
    /\ BotTokenPresent
    /\ config_file.telegram_chat_id = StrValue(<<"4", "_">>)
    /\ pc = "failed"
    /\ Len(prometheus_file) = 5
    /\ Len(rule_files) = 2
    /\ rule_files[1].path.kind = "sui_bridge"
    /\ rule_files[2].path.kind = "sui_validator"
    /\ alertmanager_file = <<>> /\ json_files = <<>> /\ stdout = <<>>

---------------------------------------------------------------------------
(* Severities and receivers *)

\* C28: every rule written has severity critical or warning: critical in
\* every bridge file and in the critical group of a validator, warning in
\* the warning group of a validator. Every routing document written holds
\* the receivers default, critical and warning and no other, the root
\* route on default, and the child routes critical to critical and warning
\* to warning.
C28_SeverityRouted ==
    /\ \A n \in 1..Len(rule_files) :
          \A g \in 1..Len(rule_files[n].groups) :
              LET group == rule_files[n].groups[g] IN
              \A m \in 1..Len(group.rules) :
                  /\ group.rules[m].severity \in {"critical", "warning"}
                  /\ group.rules[m].severity =
                        IF rule_files[n].path.kind = "sui_bridge" THEN "critical"
                        ELSE group.list
    /\ \A n \in 1..Len(alertmanager_file) :
          LET doc == alertmanager_file[n]
              names == [m \in 1..Len(doc.receivers) |-> doc.receivers[m].name]
          IN  /\ names = <<"default", "critical", "warning">>
              /\ doc.route.receiver = "default"
              /\ doc.route.routes =
                    << [severity |-> "critical", receiver |-> "critical"],
                       [severity |-> "warning", receiver |-> "warning"] >>

\* C28 witness: a run is through with a validator file that holds a
\* critical and a warning group, and with the routing document written for
\* every credential given.
C28_Witness ==
    /\ pc = "done"
    /\ alertmanager_file # <<>>
    /\ PagerdutyPresent /\ BotTokenPresent /\ ChatIdPresent /\ DiscordPresent
    /\ \E n \in 1..Len(rule_files) :
          /\ rule_files[n].path.kind = "sui_validator"
          /\ Len(rule_files[n].groups) = 2
          /\ rule_files[n].groups[2].rules[1].severity = "warning"

\* C29: the names of the rule files written in a run are pairwise
\* different, also for entities whose aliases are equal or are equal once
\* sanitized.
C29_DistinctPaths ==
    \A n, m \in 1..Len(rule_files) :
        n # m => rule_files[n].path.file # rule_files[m].path.file

\* C29 witness: two bridges with the aliases "A b" and "a-b" and a
\* validator with the alias "a-b" have their rule files, all three with the
\* sanitized alias a_b.
C29_Witness ==
    /\ Len(rule_files) = 3
    /\ config.bridges.items[1].alias = AliasA
    /\ config.bridges.items[2].alias = AliasB
    /\ config.validators.items[1].alias = AliasB
    /\ \A n \in 1..3 : rule_files[n].path.safe_alias = <<"a", "_", "b">>
    /\ rule_files[2].path.file =
          << "s", "u", "i", "_", "b", "r", "i", "d", "g", "e", "_", "1", "_", "a", "_", "b",
             "_", "a", "l", "e", "r", "t", "s", ".", "y", "m", "l" >>

====
